---- MODULE Spec2Model ----
(***************************************************************************)
(* Resilience layer of the diagram generator:                              *)
(*   - fetchWithRetry / fetchWithTimeout / ErrorHandler  (frontend utils)  *)
(*   - LLMService response cache                         (backend)         *)
(*   - ImageService CLI availability probe and its cache (backend)         *)
(*   - rateLimit and requestTimeout middleware           (backend)         *)
(*   - DiagramController.generateDiagram                 (backend)         *)
(* Each component has its own specification over the shared variables;    *)
(* the variables of the other components stay at their initial values.     *)
(***************************************************************************)
EXTENDS Integers, Sequences, FiniteSets, TLC

VARIABLES
    \* ---- fetchWithRetry (one dispatch) ----
    rpc,          \* position of the dispatch: idle, fetching, backoff, done
    maxRetries,   \* argument maxRetries
    retryDelay,   \* argument retryDelay
    timeoutMs,    \* argument timeoutMs
    deadlines,    \* history: the delay the timer of every attempt was set to
    attempt,      \* loop variable `attempt`
    lastError,    \* local `lastError` (NoError while unassigned)
    timer,        \* deadline timer of the current fetchWithTimeout call
    aborted,      \* controller.signal.aborted of the current call
    outcomes,     \* outcome of every fetchWithTimeout call made, in order
    waits,        \* every backoff delay waited, in order
    result,       \* what fetchWithRetry returned or threw
    \* ---- ErrorHandler.categorizeError (one call) ----
    clsIn,        \* the arguments: the error and the status of the response
    clsOut,       \* the ErrorInfo returned
    \* ---- useNetworkStatus ----
    net,          \* the hook's state, the platform and its listeners
    \* ---- failures of generateDiagram ----
    catchSt,      \* a failure on its way through the catch blocks
    \* ---- the process ----
    proc,         \* the cleanCache interval, the server and the signals
    \* ---- generatePNGWithFallback (one call) ----
    conv,         \* the call, the converter process and its timer
    \* ---- backend clock ----
    now,          \* Date.now(), in ticks
    \* ---- LLMService ----
    cache,        \* this.cache: the Map's entries in insertion order
    gen,          \* the generateDrawioXML calls: position, cacheKey, result
    saved,        \* history: the keys saveToCache wrote, in order (SpecFill)
    \* ---- ImageService ----
    version,      \* which ImageService definition runs
    cliCache,     \* this.cliAvailabilityCache
    calls,        \* the isDrawioCLIAvailable calls and their probes
    \* ---- rateLimit middleware ----
    rateLimitStore, \* the module-level rateLimitStore, per client
    passed,       \* history: requests passed on since the client's record began
    lastReq,      \* history: the last request the middleware handled
    \* ---- requestTimeout and DiagramController.generateDiagram ----
    ctrlVersion,  \* which DiagramController definition runs
    ctl,          \* the request being handled: handler position, res, timer
    prev          \* history: the request handled before it

retryVars == <<rpc, maxRetries, retryDelay, timeoutMs, deadlines, attempt,
               lastError, timer, aborted,
               outcomes, waits, result>>

clsVars == <<clsIn, clsOut>>

netVars == <<net>>

catchVars == <<catchSt>>

procVars == <<proc>>

convVars == <<conv>>

\* the components that share no state with the others
sideVars == <<clsVars, netVars, catchVars, procVars, convVars>>

llmVars == <<cache, gen, saved>>

probeVars == <<version, cliCache, calls>>

throttleVars == <<rateLimitStore, passed, lastReq>>

ctlVars == <<ctrlVersion, ctl, prev>>

serverVars == <<throttleVars, ctlVars>>

notRetryVars == <<sideVars, now, llmVars, probeVars, serverVars>>

vars == <<retryVars, sideVars, now, llmVars, probeVars, serverVars>>

(***************************************************************************)
(* Bounds                                                                  *)
(***************************************************************************)
MaxRetriesBound == 3

\* last tick of the clock
MaxTime == 2

\* CACHE_TTL in ticks (one hour in the source)
CacheTtlTicks == 1

\* MAX_CACHE_SIZE of the model (100 in the source)
CacheCapacity == 2

\* CACHE_DURATION in ticks (five minutes in the source)
CliCacheTicks == 1

\* windowMs of rateLimit in ticks (60000 ms in the source)
ThrottleWindowTicks == 1

\* maxRequests of rateLimit (20 in the source)
ThrottleMaxRequests == 2

\* milliseconds in a tick of the clock
TickMs == 500

(***************************************************************************)
(* Strings are sequences of one-character strings, so that                 *)
(* String.prototype.includes is a real substring test.                     *)
(***************************************************************************)
Includes(s, sub) ==
    \E i \in 1..(Len(s) - Len(sub) + 1) : SubSeq(s, i, i + Len(sub) - 1) = sub

StrFetch == <<"f","e","t","c","h">>
StrNetwork == <<"n","e","t","w","o","r","k">>
StrFailedToFetch == <<"F","a","i","l","e","d"," ","t","o"," ","f","e","t","c","h">>
StrNetworkError == <<"N","e","t","w","o","r","k","E","r","r","o","r">>
StrTimeout == <<"t","i","m","e","o","u","t">>
StrTimedOut == <<"t","i","m","e","d"," ","o","u","t">>
StrRequestTimedOut ==
    <<"R","e","q","u","e","s","t"," ","t","i","m","e","d"," ","o","u","t">>
StrNetworkLost == <<"n","e","t","w","o","r","k"," ","l","o","s","t">>
StrBoom == <<"b","o","o","m">>
StrAborted == <<"a","b","o","r","t","e","d">>

NoError == [name |-> "undefined", message |-> <<>>]

\* Failures the transport (fetch) itself can reject with while not aborted.
TransportErrors ==
    { [name |-> "TypeError", message |-> StrFailedToFetch],
      [name |-> "TypeError", message |-> StrBoom],
      [name |-> "Error",     message |-> StrNetworkLost],
      [name |-> "Error",     message |-> StrNetworkError],
      [name |-> "Error",     message |-> StrBoom] }

\* What fetch rejects with once controller.abort() was called.
AbortError == [name |-> "AbortError", message |-> StrAborted]

\* HTTP statuses the collaborator answers with.
Statuses == {200, 204, 304, 400, 404, 429, 500, 503}

(***************************************************************************)
(* ErrorHandler                                                            *)
(***************************************************************************)
isNetworkError(error) ==
    \/ error.name = "TypeError"
    \/ Includes(error.message, StrFetch)
    \/ Includes(error.message, StrNetwork)
    \/ Includes(error.message, StrFailedToFetch)
    \/ Includes(error.message, StrNetworkError)

isTimeoutError(error) ==
    \/ error.name = "TimeoutError"
    \/ Includes(error.message, StrTimeout)
    \/ Includes(error.message, StrTimedOut)

isServerError(status) == status >= 500

isClientError(status) == status >= 400 /\ status < 500

\* Response.ok
ResponseOk(status) == status >= 200 /\ status <= 299

\* response?.status when no response is given
NoStatus == -1

\* An ErrorInfo: message and userAction stand for the texts of the source,
\* category names the rule that built it.
ErrorInfo(category, message, type, isRetryable, userAction) ==
    [category |-> category, message |-> message, type |-> type,
     isRetryable |-> isRetryable, userAction |-> userAction]

\* lines 147-152
NetworkInfo ==
    ErrorInfo("network", <<"check the connection">>, "error", TRUE,
              "check network and retry")

\* lines 157-162
TimeoutInfo ==
    ErrorInfo("timeout", <<"request timed out">>, "warning", TRUE,
              "wait and retry")

\* lines 167-172
ServerInfo ==
    ErrorInfo("server", <<"temporary server problem">>, "error", TRUE,
              "wait and retry")

\* lines 177-206: the client errors, by status
ClientInfo(status) ==
    CASE status = 400 ->
            ErrorInfo("client", <<"problem with the input">>, "warning", TRUE,
                      "revise input and retry")
      [] status = 413 ->
            ErrorInfo("client", <<"input too long">>, "warning", TRUE,
                      "shorten input and retry")
      [] status = 429 ->
            ErrorInfo("client", <<"too many requests">>, "warning", TRUE,
                      "wait and retry")
      [] OTHER ->
            ErrorInfo("client", <<"problem with the request">>, "warning", TRUE,
                      "revise input and retry")

UnknownInfoNotRetryable ==
    ErrorInfo("unknown", <<"unexpected error">>, "error", FALSE,
              "wait and retry")

\* lines 210-215
UnknownInfo ==
    ErrorInfo("unknown", <<"unexpected error">>, "error", TRUE,
              "wait and retry")

categorizeErrorTimeoutFirst(error, status) ==
    IF isTimeoutError(error) THEN TimeoutInfo
    ELSE IF isNetworkError(error) THEN NetworkInfo
    ELSE UnknownInfo

categorizeErrorStatusFirst(error, status) ==
    IF status # NoStatus /\ isServerError(status) THEN ServerInfo
    ELSE IF status # NoStatus /\ isClientError(status) THEN ClientInfo(status)
    ELSE IF isNetworkError(error) THEN NetworkInfo
    ELSE IF isTimeoutError(error) THEN TimeoutInfo
    ELSE UnknownInfo

categorizeErrorServerFrom501(error, status) ==
    IF isNetworkError(error) THEN NetworkInfo
    ELSE IF isTimeoutError(error) THEN TimeoutInfo
    ELSE IF status # NoStatus /\ status > 500 THEN ServerInfo
    ELSE IF status # NoStatus /\ isClientError(status) THEN ClientInfo(status)
    ELSE UnknownInfo

\* categorizeError: the ErrorInfo, with the branch that built it as its
\* category
categorizeError(error, status) ==
    IF isNetworkError(error) THEN NetworkInfo
    ELSE IF isTimeoutError(error) THEN TimeoutInfo
    ELSE IF status # NoStatus /\ isServerError(status) THEN ServerInfo
    ELSE IF status # NoStatus /\ isClientError(status) THEN ClientInfo(status)
    ELSE UnknownInfo

\* Number.prototype.toString of a status, as characters
Digit(d) == <<"0","1","2","3","4","5","6","7","8","9">>[d + 1]

RECURSIVE StatusToString(_)
StatusToString(n) ==
    IF n < 10 THEN <<Digit(n)>>
    ELSE Append(StatusToString(n \div 10), Digit(n % 10))

\* line 239: new Error(`HTTP ${response.status}`)
HttpError(status) ==
    [name |-> "Error",
     message |-> <<"H","T","T","P"," ">> \o StatusToString(status)]

\* What response.json() gives: the body does not parse, it parses to null,
\* to an object without message, with an empty message, or with a message.
Payloads == {"unparsable", "null", "noMessage", "emptyMessage", "message"}

PayloadMessage == <<"message of the server">>

\* line 226: data.message is truthy
HasMessage(payload) == payload = "message"

extractRetryableAlways(status) == TRUE

\* line 230
extractRetryable(status) == isServerError(status) \/ status = 429

\* extractErrorFromResponse, lines 221-240: reading data.message of null
\* throws inside the try block, like a body that does not parse
extractErrorFromResponse(status, payload) ==
    IF HasMessage(payload)
    THEN ErrorInfo("payload", PayloadMessage,
                   IF isServerError(status) THEN "error" ELSE "warning",
                   extractRetryable(status),
                   IF isServerError(status) THEN "wait and retry"
                   ELSE "revise input and retry")
    ELSE categorizeError(HttpError(status), status)

\* what was thrown: an Error, a string, or any other value
ThrownKinds == {"Error", "string", "other"}

\* handleError, lines 245-263
handleError(thrown, error, text, status) ==
    CASE thrown = "Error" -> categorizeError(error, status)
      [] thrown = "string" ->
            [category |-> "unknown", message |-> text, type |-> "error",
             isRetryable |-> FALSE, userAction |-> "none"]
      [] OTHER ->
            [category |-> "unknown", message |-> <<"unknown error">>,
             type |-> "error", isRetryable |-> FALSE, userAction |-> "none"]

StrNetworkTimeout ==
    <<"n","e","t","w","o","r","k"," ","t","i","m","e","o","u","t">>
StrRefetch == <<"r","e","f","e","t","c","h","i","n","g">>
StrNetCapital == <<"N","e","t","w","o","r","k"," ","d","o","w","n">>

\* the failures and statuses the classifier is applied to
ClassifyErrors ==
    [name : {"TypeError", "Error", "TimeoutError", "AbortError"},
     message : {StrFailedToFetch, StrNetworkLost, StrNetworkError, StrBoom,
                StrRequestTimedOut, StrNetworkTimeout, StrRefetch,
                StrNetCapital, <<>>}]

ClassifyStatuses == Statuses \cup {NoStatus, 399, 413, 422, 499, 501, 599}

NoInfo ==
    [category |-> "none", message |-> <<>>, type |-> "none",
     isRetryable |-> FALSE, userAction |-> "none"]

\* one application of the classifier: the operation and its arguments
ClsCall(op, thrown, error, text, status, payload) ==
    [op |-> op, thrown |-> thrown, error |-> error, text |-> text,
     status |-> status, payload |-> payload]

ClsInit ==
    /\ clsIn = ClsCall("categorizeError", "Error", NoError, <<>>, NoStatus,
                       "unparsable")
    /\ clsOut = NoInfo

ClsInputs ==
    /\ \/ \E e \in ClassifyErrors, st \in ClassifyStatuses :
            clsIn = ClsCall("categorizeError", "Error", e, <<>>, st, "unparsable")
       \/ \E e \in ClassifyErrors, st \in ClassifyStatuses :
            clsIn = ClsCall("handleError", "Error", e, <<>>, st, "unparsable")
       \/ \E k \in ThrownKinds \ {"Error"}, t \in {StrBoom, StrNetworkLost},
             st \in ClassifyStatuses :
            clsIn = ClsCall("handleError", k, NoError,
                            IF k = "string" THEN t ELSE <<>>, st, "unparsable")
       \/ \E st \in ClassifyStatuses \ {NoStatus}, pl \in Payloads :
            clsIn = ClsCall("extractErrorFromResponse", "Error", NoError, <<>>,
                            st, pl)
    /\ clsOut = NoInfo

Classify ==
    /\ clsOut = NoInfo
    /\ clsIn.op = "categorizeError"
    /\ clsOut' = categorizeError(clsIn.error, clsIn.status)
    /\ UNCHANGED <<retryVars, clsIn, netVars, catchVars, procVars, convVars, now, llmVars,
                   probeVars, serverVars>>

HandleError ==
    /\ clsOut = NoInfo
    /\ clsIn.op = "handleError"
    /\ clsOut' = handleError(clsIn.thrown, clsIn.error, clsIn.text, clsIn.status)
    /\ UNCHANGED <<retryVars, clsIn, netVars, catchVars, procVars, convVars, now, llmVars,
                   probeVars, serverVars>>

ExtractError ==
    /\ clsOut = NoInfo
    /\ clsIn.op = "extractErrorFromResponse"
    /\ clsOut' = extractErrorFromResponse(clsIn.status, clsIn.payload)
    /\ UNCHANGED <<retryVars, clsIn, netVars, catchVars, procVars, convVars, now, llmVars,
                   probeVars, serverVars>>

ClassifyNext ==
    \/ Classify
    \/ HandleError
    \/ ExtractError

fetchWithTimeoutCatchKeeps(error) == error

(***************************************************************************)
(* fetchWithTimeout: what the promise it returns settles with, given how   *)
(* the underlying fetch settled.                                           *)
(***************************************************************************)
Resp(status) == [kind |-> "response", status |-> status]
Fail(error) == [kind |-> "failure", error |-> error]

fetchWithTimeoutCatch(error) ==
    IF error.name = "AbortError"
    THEN [name |-> "Error", message |-> StrRequestTimedOut]
    ELSE error

(***************************************************************************)
(* fetchWithRetry: the decisions of the loop body                          *)
(***************************************************************************)
\* line 311: success or client error is returned without retrying
ReturnsAtOnce(status) == ResponseOk(status) \/ isClientError(status)

RetryResponseNoAttemptCheck(att, max, status) == isServerError(status)

RetryResponseOneShort(att, max, status) ==
    att + 1 < max /\ isServerError(status)

\* line 316: a server error is retried while attempts remain
RetryResponse(att, max, status) == att < max /\ isServerError(status)

ResponseDecisionRetryNotOk(att, max, status) ==
    IF ResponseOk(status) THEN "return"
    ELSE IF att < max THEN "retry"
    ELSE "return"

\* lines 311-321: what the try block does with a response
ResponseDecision(att, max, status) ==
    IF ReturnsAtOnce(status) THEN "return"
    ELSE IF RetryResponse(att, max, status) THEN "retry"
    ELSE "return"

RetryFailureAnyError(att, max, error) == att < max

\* line 326: a thrown failure is retried while attempts remain and it is a
\* network error
RetryFailure(att, max, error) == att < max /\ isNetworkError(error)

BackoffDelayLinear(delay, att) == delay * (att + 1)

\* line 317 / 327: retryDelay * Math.pow(2, attempt)
BackoffDelay(delay, att) == delay * (2 ^ att)

\* the retryDelay arguments of the model (1000 is the default, line 301)
RetryDelays == {300, 1000}

\* the timeoutMs arguments of the model (60000 is the default, line 302)
Timeouts == {5000, 60000}

RECURSIVE SumOf(_)
SumOf(ws) == IF ws = <<>> THEN 0 ELSE Head(ws) + SumOf(Tail(ws))

AttemptTimeoutRemaining(t, ws) == t - SumOf(ws)

\* line 308: every call of fetchWithTimeout is given timeoutMs, whatever the
\* waits ws the dispatch has been through
AttemptTimeout(t, ws) == t

clearTimeoutKeeps(t) == t

\* lines 283, 286: clearTimeout(timeoutId) disarms a timer that has not
\* fired and does nothing to one that has
clearTimeoutId(t) == IF t = "armed" THEN "cleared" ELSE t

RetryInit ==
    /\ rpc = "idle"
    /\ maxRetries = 0
    /\ retryDelay = 0
    /\ timeoutMs = 0
    /\ deadlines = <<>>
    /\ attempt = 0
    /\ lastError = NoError
    /\ timer = "none"
    /\ aborted = FALSE
    /\ outcomes = <<>>
    /\ waits = <<>>
    /\ result = [kind |-> "none"]

\* fetchWithRetry is called: attempt = 0 passes the loop test (0 <= maxRetries)
\* and the first fetchWithTimeout call arms its timer and starts the fetch.
Dispatch ==
    /\ rpc = "idle"
    /\ \E n \in 0..MaxRetriesBound, d \in RetryDelays, t \in Timeouts :
         /\ maxRetries' = n
         /\ retryDelay' = d
         /\ timeoutMs' = t
         /\ deadlines' = <<AttemptTimeout(t, waits)>>
    /\ attempt' = 0
    /\ rpc' = "fetching"
    /\ timer' = "armed"
    /\ aborted' = FALSE
    /\ UNCHANGED <<lastError, outcomes, waits, result>>
    /\ UNCHANGED notRetryVars

\* The fetch resolves with a response before the timer fired: the timer is
\* cleared (line 283) and the loop body decides (lines 311-321).
FetchResolves ==
    /\ rpc = "fetching"
    /\ ~aborted
    /\ \E status \in Statuses :
         /\ outcomes' = Append(outcomes, Resp(status))
         /\ timer' = clearTimeoutId(timer)
         /\ IF ResponseDecision(attempt, maxRetries, status) = "retry"
            THEN /\ rpc' = "backoff"
                 /\ waits' = Append(waits, BackoffDelay(retryDelay, attempt))
                 /\ result' = result
            ELSE /\ rpc' = "done"
                 /\ result' = [kind |-> "returned", status |-> status]
                 /\ waits' = waits
    /\ UNCHANGED <<maxRetries, retryDelay, timeoutMs, deadlines, attempt, lastError,
                   aborted>>
    /\ UNCHANGED notRetryVars

\* The catch block of fetchWithRetry (lines 322-332) for a failure `error`
\* thrown by fetchWithTimeout.
CatchBlock(error) ==
    /\ outcomes' = Append(outcomes, Fail(error))
    /\ lastError' = error
    /\ IF RetryFailure(attempt, maxRetries, error)
       THEN /\ rpc' = "backoff"
            /\ waits' = Append(waits, BackoffDelay(retryDelay, attempt))
            /\ result' = result
       ELSE /\ rpc' = "done"
            /\ result' = [kind |-> "thrown", error |-> error]
            /\ waits' = waits

\* The fetch rejects on its own before the timer fired (lines 285-291).
FetchRejects ==
    /\ rpc = "fetching"
    /\ ~aborted
    /\ \E e \in TransportErrors :
         CatchBlock(fetchWithTimeoutCatch(e))
    /\ timer' = clearTimeoutId(timer)
    /\ UNCHANGED <<maxRetries, retryDelay, timeoutMs, deadlines, attempt, aborted>>
    /\ UNCHANGED notRetryVars

\* The deadline timer fires, if it is still armed (lines 275-277).
TimerFires ==
    /\ timer = "armed"
    /\ timer' = "fired"
    /\ aborted' = TRUE
    /\ UNCHANGED <<rpc, maxRetries, retryDelay, timeoutMs, deadlines, attempt,
                   lastError, outcomes,
                   waits, result>>
    /\ UNCHANGED notRetryVars

\* The aborted fetch rejects with an AbortError (lines 285-289).
AbortedFetchRejects ==
    /\ rpc = "fetching"
    /\ aborted
    /\ CatchBlock(fetchWithTimeoutCatch(AbortError))
    /\ timer' = clearTimeoutId(timer)
    /\ UNCHANGED <<maxRetries, retryDelay, timeoutMs, deadlines, attempt, aborted>>
    /\ UNCHANGED notRetryVars

\* The backoff wait is over: `continue`, attempt++, loop test, next call of
\* fetchWithTimeout; line 335 when the loop test fails.
BackoffElapses ==
    /\ rpc = "backoff"
    /\ attempt' = attempt + 1
    /\ IF attempt + 1 <= maxRetries
       THEN /\ rpc' = "fetching"
            /\ timer' = "armed"
            /\ deadlines' = Append(deadlines, AttemptTimeout(timeoutMs, waits))
            /\ aborted' = FALSE
            /\ result' = result
       ELSE /\ rpc' = "done"
            /\ result' = [kind |-> "thrown", error |-> lastError]
            /\ UNCHANGED <<timer, aborted, deadlines>>
    /\ UNCHANGED <<maxRetries, retryDelay, timeoutMs, lastError, outcomes, waits>>
    /\ UNCHANGED notRetryVars

RetryNext ==
    \/ Dispatch
    \/ FetchResolves
    \/ FetchRejects
    \/ TimerFires
    \/ AbortedFetchRejects
    \/ BackoffElapses

(***************************************************************************)
(* Backend clock: Date.now() in ticks                                      *)
(***************************************************************************)
Tick ==
    /\ now < MaxTime
    /\ now' = now + 1
    /\ UNCHANGED <<retryVars, sideVars, serverVars, llmVars, probeVars>>

(***************************************************************************)
(* LLMService.generateCacheKey                                             *)
(* A prompt is the sequence of its UTF-16 code units.  The prompts of the  *)
(* model have at most two code units below 128, so the running hash stays  *)
(* far below 2^31 and the 32-bit truncation of `hash & hash` leaves it as  *)
(* it is.                                                                  *)
(***************************************************************************)
RECURSIVE HashFrom(_, _, _)
\* lines 818-823: hash = ((hash << 5) - hash) + char, from index i on
HashFrom(prompt, i, hash) ==
    IF i > Len(prompt) THEN hash
    ELSE HashFrom(prompt, i + 1, ((hash * 32) - hash) + prompt[i])

MathAbs(x) == IF x < 0 THEN 0 - x ELSE x

Base36Digits ==
    <<"0","1","2","3","4","5","6","7","8","9","a","b","c","d","e","f","g","h",
      "i","j","k","l","m","n","o","p","q","r","s","t","u","v","w","x","y","z">>

RECURSIVE ToBase36(_)
\* Number.prototype.toString(36) of a non-negative integer
ToBase36(n) ==
    IF n < 36 THEN <<Base36Digits[n + 1]>>
    ELSE ToBase36(n \div 36) \o <<Base36Digits[(n % 36) + 1]>>

\* line 824: `llm_${Math.abs(hash).toString(36)}`
generateCacheKey(prompt) ==
    <<"l","l","m","_">> \o ToBase36(MathAbs(HashFrom(prompt, 1, 0)))

\* Prompts of the model: "Aa" and "BB" (equal hashes), and one-letter
\* prompts "a", "b", ... so that CacheCapacity + 1 distinct keys exist.
Prompts ==
    {<<65, 97>>, <<66, 66>>} \cup {<<96 + i>> : i \in 1..CacheCapacity}

\* generateCacheKey on the prompts of the model
KeyOf == [p \in Prompts |-> generateCacheKey(p)]

(***************************************************************************)
(* LLMService: the response cache (a Map, kept as the sequence of its      *)
(* entries in insertion order)                                             *)
(***************************************************************************)
CACHE_TTL == CacheTtlTicks

MAX_CACHE_SIZE == CacheCapacity

MapHas(c, key) == \E i \in 1..Len(c) : c[i].key = key

MapIndex(c, key) == CHOOSE i \in 1..Len(c) : c[i].key = key

\* Map.prototype.delete
MapDelete(c, key) == SelectSeq(c, LAMBDA e : e.key # key)

MapSetAppend(c, key, entry) == Append(c, entry)

\* Map.prototype.set: an existing key keeps its place in the order
MapSet(c, key, entry) ==
    IF MapHas(c, key)
    THEN [c EXCEPT ![MapIndex(c, key)] = entry]
    ELSE Append(c, entry)

NoXml == <<>>

IsExpiredInverted(entry, t) == t < entry.expiresAt

IsExpiredInclusive(entry, t) == t >= entry.expiresAt

\* lines 836 and 872: Date.now() > entry.expiresAt
IsExpired(entry, t) == t > entry.expiresAt

getFromCacheValueServeExpired(c, key, t) ==
    IF ~MapHas(c, key) THEN NoXml ELSE c[MapIndex(c, key)].xml

\* getFromCache, its return value (NoXml for null)
getFromCacheValue(c, key, t) ==
    IF ~MapHas(c, key) THEN NoXml
    ELSE IF IsExpired(c[MapIndex(c, key)], t) THEN NoXml
    ELSE c[MapIndex(c, key)].xml

getFromCacheStateKeepExpired(c, key, t) == c

getFromCacheStateMoveToEnd(c, key, t) ==
    IF ~MapHas(c, key) THEN c
    ELSE IF IsExpired(c[MapIndex(c, key)], t) THEN MapDelete(c, key)
    ELSE Append(MapDelete(c, key), c[MapIndex(c, key)])

\* getFromCache, the cache it leaves
getFromCacheState(c, key, t) ==
    IF MapHas(c, key) /\ IsExpired(c[MapIndex(c, key)], t)
    THEN MapDelete(c, key)
    ELSE c

NewEntryTtlFromOldStamp(c, key, xml, t) ==
    [key |-> key, xml |-> xml, timestamp |-> t,
     expiresAt |-> IF MapHas(c, key)
                   THEN c[MapIndex(c, key)].timestamp + CACHE_TTL
                   ELSE t + CACHE_TTL]

\* lines 856-861: the entry written at time t
NewEntry(c, key, xml, t) ==
    [key |-> key, xml |-> xml, timestamp |-> t, expiresAt |-> t + CACHE_TTL]

EvictOldestWhenOver(c) ==
    IF Len(c) > MAX_CACHE_SIZE THEN MapDelete(c, c[1].key) ELSE c

EvictNewest(c) ==
    IF Len(c) >= MAX_CACHE_SIZE THEN MapDelete(c, c[Len(c)].key) ELSE c

\* lines 849-854: at capacity the first key of the Map is deleted
EvictOldest(c) ==
    IF Len(c) >= MAX_CACHE_SIZE THEN MapDelete(c, c[1].key) ELSE c

saveToCacheEvictOnly(c, key, xml, t) == EvictOldest(c)

\* saveToCache
saveToCache(c, key, xml, t) ==
    MapSet(EvictOldest(c), key, NewEntry(EvictOldest(c), key, xml, t))

\* cleanCache
cleanCache(c, t) == SelectSeq(c, LAMBDA e : ~IsExpired(e, t))

(***************************************************************************)
(* LLMService: the model's answer.  A text is a sequence of tokens; the    *)
(* tags and fences the code searches for are tokens of their own.          *)
(***************************************************************************)
\* the tokens for a code fence (three backticks) and for a fence followed by xml
Fence == "[fence]"
FenceXml == "[fence]xml"

ValidXmlA == <<"<mxfile", "<mxGraphModel", "<root>", "A", "</mxfile>">>
ValidXmlB == <<"<mxfile", "<mxGraphModel", "<root>", "B", "</mxfile>">>

\* response.content[0] of the answers of the model
ModelContents ==
    { [type |-> "text", text |-> ValidXmlA],
      [type |-> "text", text |-> <<"here:">> \o ValidXmlB \o <<"bye">>],
      [type |-> "text", text |-> <<FenceXml>> \o ValidXmlA \o <<Fence>>],
      [type |-> "text", text |-> <<"sorry">>],
      [type |-> "text", text |-> <<"<mxfile", "A", "</mxfile>">>],
      [type |-> "tool_use", text |-> <<>>] }

PositionsOf(text, toks) == {i \in 1..Len(text) : text[i] \in toks}

Min(S) == CHOOSE x \in S : \A y \in S : x <= y

\* first regular expression of line 730: the first xml fence and the first
\* fence after it
FenceMatch(text) ==
    LET opens == PositionsOf(text, {FenceXml})
    IN  IF opens = {} THEN <<FALSE, <<>>>>
        ELSE LET i == Min(opens)
                 closes == {j \in PositionsOf(text, {Fence, FenceXml}) : j > i}
             IN  IF closes = {} THEN <<FALSE, <<>>>>
                 ELSE <<TRUE, SubSeq(text, i + 1, Min(closes) - 1)>>

\* /(<mxfile[\s\S]*?<\/mxfile>)/ : the first <mxfile and the first </mxfile>
\* after it
TagMatch(text) ==
    LET opens == PositionsOf(text, {"<mxfile"})
    IN  IF opens = {} THEN <<FALSE, <<>>>>
        ELSE LET i == Min(opens)
                 closes == {j \in PositionsOf(text, {"</mxfile>"}) : j > i}
             IN  IF closes = {} THEN <<FALSE, <<>>>>
                 ELSE <<TRUE, SubSeq(text, i, Min(closes))>>

\* extractXMLFromResponse: <<TRUE, xml>> or <<FALSE, code of the LLMError>>
extractXMLFromResponse(text) ==
    IF FenceMatch(text)[1] THEN <<TRUE, FenceMatch(text)[2]>>
    ELSE IF TagMatch(text)[1] THEN <<TRUE, TagMatch(text)[2]>>
    ELSE IF Len(text) > 0 /\ text[1] = "<mxfile" /\ text[Len(text)] = "</mxfile>"
    THEN <<TRUE, text>>
    ELSE <<FALSE, "INVALID_RESPONSE">>

HasToken(xml, tok) == \E i \in 1..Len(xml) : xml[i] = tok

validateDrawioXMLAccepts(xml) == TRUE

\* validateDrawioXML: TRUE, or FALSE when it throws (code INVALID_XML)
validateDrawioXML(xml) ==
    /\ HasToken(xml, "<mxfile")
    /\ HasToken(xml, "</mxfile>")
    /\ HasToken(xml, "<mxGraphModel")
    /\ HasToken(xml, "<root>")

\* lines 567-576 on an answer of the model: <<TRUE, xml>> when the XML is
\* extracted and valid, <<FALSE, code>> when an LLMError is thrown
ProcessContent(content) ==
    IF content.type # "text" THEN <<FALSE, "INVALID_RESPONSE">>
    ELSE LET ex == extractXMLFromResponse(content.text)
         IN  IF ~ex[1] THEN ex
             ELSE IF ~validateDrawioXML(ex[2]) THEN <<FALSE, "INVALID_XML">>
             ELSE ex

Processed == [c \in ModelContents |-> ProcessContent(c)]

\* Codes handleAnthropicError maps the rejections of the API call to.
RejectionCodes == {"RATE_LIMIT_ERROR", "UNKNOWN_ERROR"}

(***************************************************************************)
(* LLMService.generateDrawioXML                                            *)
(***************************************************************************)
Reqs == {"r1", "r2"}

\* A call keeps its local cacheKey while it runs, with what getFromCache
\* found (lookup: absent, expired or hit); a finished call holds what it
\* returned or threw and whether it invoked the API.
IdleGen ==
    [pc |-> "idle", key |-> <<>>, lookup |-> "none", calledModel |-> FALSE,
     ret |-> [kind |-> "none"]]

Awaiting(key, lookup) ==
    [pc |-> "awaitModel", key |-> key, lookup |-> lookup, calledModel |-> TRUE,
     ret |-> [kind |-> "none"]]

Returned(calledModel, xml) ==
    [pc |-> "done", key |-> <<>>, lookup |-> IF calledModel THEN "none" ELSE "hit",
     calledModel |-> calledModel, ret |-> [kind |-> "returned", xml |-> xml]]

Thrown(code) ==
    [pc |-> "done", key |-> <<>>, lookup |-> "none", calledModel |-> TRUE,
     ret |-> [kind |-> "thrown", code |-> code]]

LlmInit ==
    /\ now = 0
    /\ cache = <<>>
    /\ gen = [r \in Reqs |-> IdleGen]
    /\ saved = <<>>

\* lines 541-564: the cache is consulted; a hit returns the cached XML, a miss
\* issues the API call and suspends.
GenerateCore(r, prompt) ==
    /\ gen[r].pc = "idle"
    /\ LET key == KeyOf[prompt]
           cachedResult == getFromCacheValue(cache, key, now)
       IN  /\ cache' = getFromCacheState(cache, key, now)
           /\ IF cachedResult # NoXml
              THEN gen' = [gen EXCEPT ![r] = Returned(FALSE, cachedResult)]
              ELSE gen' = [gen EXCEPT ![r] =
                       Awaiting(key, IF MapHas(cache, key) THEN "expired" ELSE "absent")]

Generate(r, prompt) ==
    /\ GenerateCore(r, prompt)
    /\ UNCHANGED <<retryVars, sideVars, serverVars, now, saved, probeVars>>

\* lines 566-582 (and 586-589): the API call resolved
ModelResolvesCore(r, content) ==
    /\ gen[r].pc = "awaitModel"
    /\ IF Processed[content][1]
       THEN /\ cache' = saveToCache(cache, gen[r].key, Processed[content][2], now)
            /\ gen' = [gen EXCEPT ![r] = Returned(TRUE, Processed[content][2])]
       ELSE /\ gen' = [gen EXCEPT ![r] = Thrown(Processed[content][2])]
            /\ cache' = cache
    /\ UNCHANGED <<retryVars, sideVars, serverVars, now, probeVars>>

ModelResolves(r, content) ==
    /\ ModelResolvesCore(r, content)
    /\ UNCHANGED saved

\* lines 583-594: the API call rejected; the failure is thrown as an LLMError
ModelRejects(r, code) ==
    /\ gen[r].pc = "awaitModel"
    /\ gen' = [gen EXCEPT ![r] = Thrown(code)]
    /\ UNCHANGED <<retryVars, sideVars, serverVars, now, cache, saved, probeVars>>

\* The caller has taken the result; the slot serves the next call.
GenerateReturns(r) ==
    /\ gen[r].pc = "done"
    /\ gen' = [gen EXCEPT ![r] = IdleGen]
    /\ UNCHANGED <<retryVars, sideVars, serverVars, now, cache, saved, probeVars>>

\* line 533: the interval timer runs cleanCache
CleanCache ==
    /\ cache' = cleanCache(cache, now)
    /\ UNCHANGED <<retryVars, sideVars, serverVars, now, gen, saved, probeVars>>

LlmNext ==
    \/ Tick
    \/ \E r \in Reqs, prompt \in Prompts : Generate(r, prompt)
    \/ \E r \in Reqs, content \in ModelContents : ModelResolves(r, content)
    \/ \E r \in Reqs, code \in RejectionCodes : ModelRejects(r, code)
    \/ \E r \in Reqs : GenerateReturns(r)
    \/ CleanCache

(***************************************************************************)
(* Filling the cache: one caller issues calls one after the other, each    *)
(* with a prompt whose key was not written before, until                   *)
(* MAX_CACHE_SIZE + 1 keys were written; `saved` records the keys in the   *)
(* order saveToCache wrote them.                                           *)
(***************************************************************************)
SavedKeys == {saved[i] : i \in 1..Len(saved)}

FillGenerate(prompt) ==
    /\ Len(saved) <= MAX_CACHE_SIZE
    /\ KeyOf[prompt] \notin SavedKeys
    /\ Generate("r1", prompt)

\* the caller repeats a prompt whose key was written before: a hit while
\* the entry is in the cache and has not expired
FillRepeat(prompt) ==
    /\ Len(saved) <= MAX_CACHE_SIZE
    /\ KeyOf[prompt] \in SavedKeys
    /\ Generate("r1", prompt)

FillResolves(content) ==
    /\ ModelResolvesCore("r1", content)
    /\ saved' = IF Processed[content][1] THEN Append(saved, gen["r1"].key) ELSE saved

FillNext ==
    \/ Tick
    \/ \E prompt \in Prompts : FillGenerate(prompt)
    \/ \E prompt \in Prompts : FillRepeat(prompt)
    \/ \E content \in ModelContents : FillResolves(content)
    \/ \E code \in RejectionCodes : ModelRejects("r1", code)
    \/ GenerateReturns("r1")
    \/ CleanCache

(***************************************************************************)
(* ImageService: availability of the Draw.io CLI.                          *)
(* `version` says which of the two ImageService definitions runs: the one  *)
(* with cliAvailabilityCache and checkDrawioCLI ("cached") or the one that *)
(* probes on every call ("uncached").  The deadline of a probe is far      *)
(* below a tick, so its timer may fire at any tick once armed.             *)
(***************************************************************************)
CACHE_DURATION == CliCacheTicks

Versions == {"cached", "uncached"}

Callers == {"c1", "c2"}

\* exit codes of the `close` event; -1 stands for null (killed by a signal)
ExitCodes == {0, 1, -1}

NoRecord == [exists |-> FALSE, available |-> FALSE, timestamp |-> 0]

Record(available, t) == [exists |-> TRUE, available |-> available, timestamp |-> t]

\* probed, calledAt, overlapped, exitCode and settledBy are history: whether
\* the call spawned a probe, when it was made, whether a probe of another
\* call was in flight then, and how its own probe ended.
IdleCall ==
    [pc |-> "idle", ret |-> FALSE, probed |-> FALSE, calledAt |-> 0,
     overlapped |-> FALSE,
     proc |-> "none", exitCode |-> -1, errored |-> FALSE, killed |-> FALSE,
     timer |-> "none", resolved |-> FALSE, settledBy |-> "none"]

ProbeInit ==
    /\ cliCache = NoRecord
    /\ calls = [c \in Callers |-> IdleCall]

IsFreshInverted(record, t) ==
    record.exists /\ t - record.timestamp > CACHE_DURATION

IsFreshInclusive(record, t) ==
    record.exists /\ t - record.timestamp <= CACHE_DURATION

\* lines 377-384: a record exists and cacheAge < CACHE_DURATION
IsFresh(record, t) ==
    record.exists /\ t - record.timestamp < CACHE_DURATION

\* the uncached isDrawioCLIAvailable has no record to consult
UsesCache(v) == v = "cached"

CloseResultNotNull(code) == code >= 0

\* lines 198 and 435: code === 0
CloseResult(code) == code = 0

TimeoutResultTrue == TRUE

\* lines 208 and 448: the deadline resolves false
TimeoutResult == FALSE

\* resolve(result) of the promise and, when that settles it, the
\* continuation of the caller: first resolve wins
Settle(call, value, by) ==
    IF call.pc = "probing"
    THEN [call EXCEPT !.pc = "done", !.ret = value, !.settledBy = by]
    ELSE call

\* lines 407-412: resolveOnce of checkDrawioCLI; the uncached version calls
\* resolve directly
resolveOnce(v, call, value, by) ==
    IF v = "cached"
    THEN IF ~call.resolved
         THEN Settle([call EXCEPT !.resolved = TRUE], value, by)
         ELSE call
    ELSE Settle(call, value, by)

\* clearTimeout(timeout): lines 434 and 440, absent from the uncached version
clearTimeout(v, call) ==
    IF v = "cached" /\ call.timer = "armed"
    THEN [call EXCEPT !.timer = "cleared"]
    ELSE call

\* lines 389-393: the record written when the probe of the cached version
\* has settled
RecordAfter(v, before, after, record, t) ==
    IF v = "cached" /\ before.pc = "probing" /\ after.pc = "done"
    THEN Record(after.ret, t)
    ELSE record

\* isDrawioCLIAvailable is called: a fresh record is returned, otherwise the
\* process is spawned and the deadline armed (lines 375-387, 403-417, 445).
CallIsAvailableCore(c) ==
    /\ calls[c].pc = "idle"
    /\ LET made == [IdleCall EXCEPT !.calledAt = now,
                       !.overlapped = \E o \in Callers \ {c} : calls[o].pc = "probing"]
       IN  IF UsesCache(version) /\ IsFresh(cliCache, now)
           THEN calls' = [calls EXCEPT ![c] =
                    [made EXCEPT !.pc = "done", !.ret = cliCache.available]]
           ELSE calls' = [calls EXCEPT ![c] =
                    [made EXCEPT !.pc = "probing", !.probed = TRUE,
                                 !.proc = "running", !.timer = "armed"]]

CallIsAvailable(c) ==
    /\ CallIsAvailableCore(c)
    /\ UNCHANGED <<retryVars, sideVars, serverVars, now, llmVars, version, cliCache>>

\* process.on('close')
ProcClose(c, code) ==
    /\ calls[c].proc = "running"
    /\ LET closed == [calls[c] EXCEPT !.proc = "closed", !.exitCode = code]
           after == resolveOnce(version, clearTimeout(version, closed),
                                CloseResult(code), "close")
       IN  /\ calls' = [calls EXCEPT ![c] = after]
           /\ cliCache' = RecordAfter(version, calls[c], after, cliCache, now)
    /\ UNCHANGED <<retryVars, sideVars, serverVars, now, llmVars, version>>

\* process.on('error')
ProcError(c) ==
    /\ calls[c].proc = "running"
    /\ ~calls[c].errored
    /\ LET failed == [calls[c] EXCEPT !.errored = TRUE]
           after == resolveOnce(version, clearTimeout(version, failed), FALSE, "error")
       IN  /\ calls' = [calls EXCEPT ![c] = after]
           /\ cliCache' = RecordAfter(version, calls[c], after, cliCache, now)
    /\ UNCHANGED <<retryVars, sideVars, serverVars, now, llmVars, version>>

\* the deadline timer fires: process.kill('SIGTERM') and resolve false
ProbeTimeout(c) ==
    /\ calls[c].timer = "armed"
    /\ LET fired == [calls[c] EXCEPT !.timer = "fired", !.killed = TRUE]
           after == resolveOnce(version, fired, TimeoutResult, "timeout")
       IN  /\ calls' = [calls EXCEPT ![c] = after]
           /\ cliCache' = RecordAfter(version, calls[c], after, cliCache, now)
    /\ UNCHANGED <<retryVars, sideVars, serverVars, now, llmVars, version>>

\* The caller has taken the result and nothing of the probe is pending: the
\* slot serves the next call.
CallReturns(c) ==
    /\ calls[c].pc = "done"
    /\ calls[c].proc # "running"
    /\ calls[c].timer # "armed"
    /\ calls' = [calls EXCEPT ![c] = IdleCall]
    /\ UNCHANGED <<retryVars, sideVars, serverVars, now, llmVars, version, cliCache>>

ProbeNext ==
    \/ Tick
    \/ \E c \in Callers : CallIsAvailable(c)
    \/ \E c \in Callers, code \in ExitCodes : ProcClose(c, code)
    \/ \E c \in Callers : ProcError(c)
    \/ \E c \in Callers : ProbeTimeout(c)
    \/ \E c \in Callers : CallReturns(c)

(***************************************************************************)
(* rateLimit middleware: a fixed window per client                         *)
(***************************************************************************)
Clients == {"ip1", "ip2"}

MsPerSecond == 1000

\* Date.now() in milliseconds
NowMs == now * TickMs

windowMs == ThrottleWindowTicks * TickMs

maxRequests == ThrottleMaxRequests

\* Math.ceil(a / b) for b > 0
CeilDiv(a, b) == 0 - ((0 - a) \div b)

MathMax(a, b) == IF a >= b THEN a ELSE b

NoThrottleRecord == [exists |-> FALSE, count |-> 0, resetTime |-> 0]

ThrottleRecord(count, resetTime) ==
    [exists |-> TRUE, count |-> count, resetTime |-> resetTime]

WindowOverInclusive(rec, t) == rec.resetTime <= t

\* lines 45 and 55: rateLimitStore[key].resetTime < now
WindowOver(rec, t) == rec.resetTime < t

CleanUpInclusive(store, t) ==
    [k \in DOMAIN store |->
        IF store[k].exists /\ store[k].resetTime <= t
        THEN NoThrottleRecord ELSE store[k]]

\* lines 44-48: expired entries of every client are deleted
CleanUp(store, t) ==
    [k \in DOMAIN store |->
        IF store[k].exists /\ WindowOver(store[k], t)
        THEN NoThrottleRecord ELSE store[k]]

CountedSliding(rec, t) ==
    IF ~rec.exists THEN ThrottleRecord(1, t + windowMs)
    ELSE IF WindowOver(rec, t) THEN ThrottleRecord(1, t + windowMs)
    ELSE ThrottleRecord(rec.count + 1,
                        IF rec.count + 1 > maxRequests
                        THEN t + windowMs ELSE rec.resetTime)

\* lines 50-62: the record of the client after counting the request
Counted(rec, t) ==
    IF ~rec.exists THEN ThrottleRecord(1, t + windowMs)
    ELSE IF WindowOver(rec, t) THEN ThrottleRecord(1, t + windowMs)
    ELSE ThrottleRecord(rec.count + 1, rec.resetTime)

ExceedsAtLimit(count) == count >= maxRequests

\* line 73: count > maxRequests
Exceeds(count) == count > maxRequests

\* line 69: X-RateLimit-Remaining
Remaining(count) == MathMax(0, maxRequests - count)

\* line 70: X-RateLimit-Reset, in seconds
ResetHeader(resetTime) == CeilDiv(resetTime, MsPerSecond)

\* line 78: retryAfter, in seconds
RetryAfter(resetTime, t) == CeilDiv(resetTime - t, MsPerSecond)

NoRequest ==
    [client |-> "none", at |-> 0, before |-> NoThrottleRecord, count |-> 0,
     resetTime |-> 0, allowed |-> FALSE, status |-> 0, retryAfter |-> 0,
     remaining |-> 0, resetHeader |-> 0]

ThrottleInit ==
    /\ rateLimitStore = [c \in Clients |-> NoThrottleRecord]
    /\ passed = [c \in Clients |-> 0]
    /\ lastReq = NoRequest

\* A request of client c passes through the middleware (lines 39-83).  The
\* count of a record is capped two above the limit.
RateLimit(c) ==
    /\ rateLimitStore[c].exists => rateLimitStore[c].count < maxRequests + 2
    /\ LET cleaned == CleanUp(rateLimitStore, NowMs)
           rec == Counted(cleaned[c], NowMs)
           denied == Exceeds(rec.count)
           restarted == rec.count = 1
       IN  /\ rateLimitStore' = [cleaned EXCEPT ![c] = rec]
           /\ passed' = [passed EXCEPT ![c] =
                  (IF restarted THEN 0 ELSE @) + (IF denied THEN 0 ELSE 1)]
           /\ lastReq' =
                  [client |-> c, at |-> NowMs, before |-> rateLimitStore[c],
                   count |-> rec.count, resetTime |-> rec.resetTime,
                   allowed |-> ~denied,
                   status |-> IF denied THEN 429 ELSE 0,
                   retryAfter |-> IF denied THEN RetryAfter(rec.resetTime, NowMs) ELSE 0,
                   remaining |-> Remaining(rec.count),
                   resetHeader |-> ResetHeader(rec.resetTime)]
    /\ UNCHANGED <<retryVars, sideVars, now, llmVars, probeVars, ctlVars>>

ThrottleNext ==
    \/ Tick
    \/ \E c \in Clients : RateLimit(c)

(***************************************************************************)
(* requestTimeout middleware and DiagramController.generateDiagram: one    *)
(* request at a time, handled by call "r1" of generateDrawioXML and call   *)
(* "c1" of isDrawioCLIAvailable.  fileService is not part of the sources   *)
(* at hand: saveDrawioFile yields some file id or throws, generateTempUrl  *)
(* and getFilePath are total.                                              *)
(***************************************************************************)
CtrlVersions == {"guarded", "unguarded"}

Rq == "r1"

Cl == "c1"

\* the ids saveDrawioFile can return: the handler calls it on every request
\* (line 96), also when the XML came from the cache
FileIds == {"f1", "f2"}

\* the prompts submitted to the controller
CtlPrompts == {<<65, 97>>, <<97>>}

TempUrl(id) == <<"tempUrl", id>>

NoUrl == <<>>

DefaultMessage == <<"diagram generated">>

WarningPrefix == <<"diagram generated but preview failed:">>

\* the results generatePNGWithFallback can return
UnavailableResult ==
    [success |-> FALSE, imageFileId |-> "",
     error |-> <<"Draw.io CLI is not installed or not available in PATH">>]

ConversionOutcomes == {"ok", "cliFailed", "threw", "threwEmpty"}

\* generatePNG: the CLI succeeded and the PNG was saved, the CLI failed, or
\* a step threw (an Error may carry an empty message)
generatePNG(outcome) ==
    CASE outcome = "ok" ->
            [success |-> TRUE, imageFileId |-> "png1", error |-> <<>>]
      [] outcome = "cliFailed" ->
            [success |-> FALSE, imageFileId |-> "",
             error |-> <<"Failed to generate PNG using Draw.io CLI">>]
      [] outcome = "threw" ->
            [success |-> FALSE, imageFileId |-> "", error |-> <<"ENOENT">>]
      [] OTHER ->
            [success |-> FALSE, imageFileId |-> "", error |-> <<>>]

PreviewOkIgnoresSuccess(imageResult) == TRUE

\* imageResult.success && imageResult.imageFileId
PreviewOk(imageResult) == imageResult.success /\ imageResult.imageFileId # ""

\* a || b on strings: b when a is undefined or empty
OrElse(a, b) == IF a.defined /\ a.text # <<>> THEN a.text ELSE b

\* the DiagramResponse built from the download URL and the image result
BuildResponse(downloadUrl, imageResult) ==
    LET ok == PreviewOk(imageResult)
        imageUrl == IF ok THEN TempUrl(imageResult.imageFileId) ELSE NoUrl
        warningMessage ==
            IF ok THEN [defined |-> FALSE, text |-> <<>>]
            ELSE [defined |-> TRUE, text |-> WarningPrefix \o imageResult.error]
    IN  [kind |-> "success", status |-> 200,
         message |-> OrElse(warningMessage, DefaultMessage),
         downloadUrl |-> downloadUrl, imageUrl |-> imageUrl, code |-> "none"]

getHttpStatusForLLMError(code) ==
    CASE code = "RATE_LIMIT_ERROR" -> 429
      [] code = "QUOTA_EXCEEDED" -> 402
      [] code = "API_KEY_MISSING" -> 401
      [] code \in {"INVALID_RESPONSE", "INVALID_XML"} -> 422
      [] code \in {"CONNECTION_ERROR", "TIMEOUT_ERROR"} -> 503
      [] OTHER -> 500

ErrorResponse(status, code) ==
    [kind |-> "error", status |-> status, message |-> <<code>>,
     downloadUrl |-> NoUrl, imageUrl |-> NoUrl, code |-> code]

NoResponse ==
    [kind |-> "none", status |-> 0, message |-> <<>>,
     downloadUrl |-> NoUrl, imageUrl |-> NoUrl, code |-> "none"]

\* responses: what was written to the socket; lateAttempts: calls of
\* res.json made after the headers were sent; rejected: the promise of the
\* handler rejected; built, available, conversion: history of the handler;
\* ended: the event of res that reached the deadline timer while it was armed.
IdleCtl ==
    [pc |-> "idle", prompt |-> <<>>, at |-> 0, xml |-> NoXml,
     fromCache |-> FALSE, downloadUrl |-> NoUrl, available |-> "unknown",
     conversion |-> "none", built |-> NoResponse, timer |-> "none",
     headersSent |-> FALSE, responses |-> <<>>, lateAttempts |-> 0,
     rejected |-> FALSE, ended |-> "no"]

\* prev: the request handled just before the current one, kept when it had
\* the same prompt, called the model and obtained an artifact; url is the
\* download URL of its response, if it was answered with one
NoPrev == [at |-> 0, xml |-> NoXml, url |-> NoUrl]

CtlInit ==
    /\ ctl = IdleCtl
    /\ prev = NoPrev

\* res.status(..).json(..) while no headers were sent
Write(c, resp) ==
    [c EXCEPT !.headersSent = TRUE, !.responses = Append(@, resp)]

\* lines 140-146 (guarded); line 303 and, when it throws because the
\* headers were sent, the catch block of lines 304-337, whose own res.json
\* throws out of the handler (unguarded)
SendSuccess(v, c, resp) ==
    IF ~c.headersSent THEN Write(c, resp)
    ELSE IF v = "guarded" THEN c
    ELSE [c EXCEPT !.lateAttempts = @ + 2, !.rejected = TRUE]

\* lines 150-186 (guarded), lines 307-337 (unguarded)
SendError(v, c, resp) ==
    IF ~c.headersSent THEN Write(c, resp)
    ELSE IF v = "guarded" THEN c
    ELSE [c EXCEPT !.lateAttempts = @ + 1, !.rejected = TRUE]

\* A request arrives once the one before is over: requestTimeout arms the
\* deadline timer (lines 6-24 of the middleware), the handler runs up to its
\* first await, the call of generateDrawioXML, which consults the cache.
Arrive(prompt) ==
    /\ ctl.pc \in {"idle", "done"}
    /\ ctl.timer # "armed"
    /\ calls[Cl].pc = "idle"
    /\ GenerateCore(Rq, prompt)
    /\ prev' = IF ctl.prompt = prompt /\ ctl.xml # NoXml /\ ~ctl.fromCache
               THEN [at |-> ctl.at, xml |-> ctl.xml,
                     url |-> IF ctl.responses = <<ctl.built>>
                             THEN ctl.built.downloadUrl ELSE NoUrl]
               ELSE NoPrev
    /\ ctl' = [IdleCtl EXCEPT !.pc = "callLlm", !.prompt = prompt,
                              !.at = now, !.timer = "armed"]
    /\ UNCHANGED <<retryVars, sideVars, throttleVars, ctrlVersion, now, saved, probeVars>>

\* generateDrawioXML returned or threw: the handler goes on to save the file
\* (line 96), or its catch block answers with the status of the LLMError.
AfterLlm ==
    /\ ctl.pc = "callLlm"
    /\ gen[Rq].pc = "done"
    /\ gen' = [gen EXCEPT ![Rq] = IdleGen]
    /\ IF gen[Rq].ret.kind = "returned"
       THEN ctl' = [ctl EXCEPT !.pc = "saveFile", !.xml = gen[Rq].ret.xml,
                               !.fromCache = ~gen[Rq].calledModel]
       ELSE ctl' = [SendError(ctrlVersion, ctl,
                        ErrorResponse(getHttpStatusForLLMError(gen[Rq].ret.code),
                                      gen[Rq].ret.code))
                    EXCEPT !.pc = "done"]
    /\ UNCHANGED <<retryVars, sideVars, throttleVars, ctrlVersion, prev, now, cache, saved,
                   probeVars>>

\* saveDrawioFile resolved: lines 97-108 run up to the await inside
\* generatePNGWithFallback, the call of isDrawioCLIAvailable.
FileSaved(id) ==
    /\ ctl.pc = "saveFile"
    /\ CallIsAvailableCore(Cl)
    /\ ctl' = [ctl EXCEPT !.pc = "preview", !.downloadUrl = TempUrl(id)]
    /\ UNCHANGED <<retryVars, sideVars, throttleVars, ctrlVersion, prev, now, llmVars,
                   version, cliCache>>

\* saveDrawioFile rejected: the catch block answers 500 INTERNAL_ERROR
FileSaveFails ==
    /\ ctl.pc = "saveFile"
    /\ ctl' = [SendError(ctrlVersion, ctl, ErrorResponse(500, "INTERNAL_ERROR"))
               EXCEPT !.pc = "done"]
    /\ UNCHANGED <<retryVars, sideVars, throttleVars, ctrlVersion, prev, now, llmVars,
                   probeVars>>

\* the handler builds its response from the image result and sends it
Respond(c, imageResult) ==
    LET response == BuildResponse(c.downloadUrl, imageResult)
    IN  [SendSuccess(ctrlVersion, c, response)
         EXCEPT !.pc = "done", !.built = response]

\* isDrawioCLIAvailable returned: generatePNGWithFallback returns the
\* failure result at once or goes on to generatePNG.
AfterProbe ==
    /\ ctl.pc = "preview"
    /\ calls[Cl].pc = "done"
    /\ IF calls[Cl].ret
       THEN ctl' = [ctl EXCEPT !.pc = "convert", !.available = "yes"]
       ELSE ctl' = Respond([ctl EXCEPT !.available = "no"], UnavailableResult)
    /\ UNCHANGED <<retryVars, sideVars, throttleVars, ctrlVersion, prev, now, llmVars,
                   probeVars>>

\* generatePNG returned
ConvertEnds(outcome) ==
    /\ ctl.pc = "convert"
    /\ ctl' = Respond([ctl EXCEPT !.conversion = outcome], generatePNG(outcome))
    /\ UNCHANGED <<retryVars, sideVars, throttleVars, ctrlVersion, prev, now, llmVars,
                   probeVars>>

RequestTimeoutFiresUnchecked(c) ==
    [Write(c, ErrorResponse(408, "REQUEST_TIMEOUT")) EXCEPT !.timer = "fired"]

\* lines 6-14 of the middleware: the callback of the deadline timer
RequestTimeoutFires(c) ==
    IF ~c.headersSent
    THEN [Write(c, ErrorResponse(408, "REQUEST_TIMEOUT")) EXCEPT !.timer = "fired"]
    ELSE [c EXCEPT !.timer = "fired"]

CtlTimeoutCancels ==
    /\ ctl.timer = "armed"
    /\ ctl' = RequestTimeoutFires(ctl)
    /\ gen' = [gen EXCEPT ![Rq] =
                  IF @.pc = "awaitModel" THEN Thrown("TIMEOUT_ERROR") ELSE @]
    /\ UNCHANGED <<retryVars, sideVars, throttleVars, ctrlVersion, prev, now, cache,
                   saved, probeVars>>

CtlTimeout ==
    /\ ctl.timer = "armed"
    /\ ctl' = RequestTimeoutFires(ctl)
    /\ UNCHANGED <<retryVars, sideVars, throttleVars, ctrlVersion, prev, now, llmVars,
                   probeVars>>

clearRequestTimeoutKeeps(c) == c

\* lines 17 and 21: clearTimeout(timeout)
clearRequestTimeout(c) == [c EXCEPT !.timer = "cleared"]

\* lines 16-18: the response was written out; 'finish' clears the timer
ResFinish ==
    /\ ctl.headersSent
    /\ ctl.timer = "armed"
    /\ ctl' = [clearRequestTimeout(ctl) EXCEPT !.ended = "finish"]
    /\ UNCHANGED <<retryVars, sideVars, throttleVars, ctrlVersion, prev, now, llmVars,
                   probeVars>>

\* lines 20-22: the client closes the connection before a response was
\* written; 'close' clears the timer and the handler runs on
ResClose ==
    /\ ~ctl.headersSent
    /\ ctl.timer = "armed"
    /\ ctl' = [clearRequestTimeout(ctl) EXCEPT !.ended = "close"]
    /\ UNCHANGED <<retryVars, sideVars, throttleVars, ctrlVersion, prev, now, llmVars,
                   probeVars>>

CtlNext ==
    \/ Tick
    \/ \E prompt \in CtlPrompts : Arrive(prompt)
    \/ \E content \in ModelContents : ModelResolves(Rq, content)
    \/ \E code \in RejectionCodes : ModelRejects(Rq, code)
    \/ CleanCache
    \/ AfterLlm
    \/ \E id \in FileIds : FileSaved(id)
    \/ FileSaveFails
    \/ \E code \in ExitCodes : ProcClose(Cl, code)
    \/ ProcError(Cl)
    \/ ProbeTimeout(Cl)
    \/ CallReturns(Cl)
    \/ AfterProbe
    \/ \E outcome \in ConversionOutcomes : ConvertEnds(outcome)
    \/ CtlTimeout
    \/ ResFinish
    \/ ResClose

(***************************************************************************)
(* useNetworkStatus: the effect of the hook, the platform's signals and    *)
(* the cleanup React runs when the component unmounts.  A listener is      *)
(* named by its event: the hook registers one handler per event and        *)
(* removes it by the same reference.                                       *)
(***************************************************************************)
\* navigator.connection: not in navigator, present but null, or an object
Connections == {"absent", "null", "present"}

\* connection.effectiveType ("" when undefined)
EffectiveTypes == {"", "slow-2g", "2g", "4g"}

\* lines 21-23: the Connection API is available
HasConnection(connection) == connection = "present"

\* lines 24, 28: connection.effectiveType || 'unknown'
TypeOrUnknown(effectiveType) ==
    IF effectiveType = "" THEN "unknown" ELSE effectiveType

\* lines 25, 29
IsSlow(effectiveType) == effectiveType \in {"slow-2g", "2g"}

\* lines 32, 43-44: the events the effect subscribes to
Subscribed(connection) ==
    IF HasConnection(connection) THEN {"change"} ELSE {"online", "offline"}

ReleasedOnlineOnly(connection) ==
    IF HasConnection(connection) THEN {"change"} ELSE {"online"}

\* lines 34-36, 46-49: the events the cleanup unsubscribes from
Released(connection) ==
    IF HasConnection(connection) THEN {"change"} ELSE {"online", "offline"}

\* useState initial values (lines 12-14); initial and lastSignal are history:
\* navigator.onLine as read by the effect, and the last online/offline
\* signal since
NetState(connection, onLine, effectiveType) ==
    [phase |-> "created", connection |-> connection, onLine |-> onLine,
     effectiveType |-> effectiveType, isOnline |-> TRUE,
     isSlowConnection |-> FALSE, connectionType |-> "unknown",
     listeners |-> {}, acquired |-> {}, released |-> {},
     initial |-> TRUE, lastSignal |-> "none"]

NetInit == net = NetState("absent", TRUE, "")

NetInputs ==
    \E c \in Connections, o \in BOOLEAN, t \in EffectiveTypes :
        /\ c # "present" => t = ""
        /\ net = NetState(c, o, t)

\* the effect runs (lines 16-50)
Mount ==
    /\ net.phase = "created"
    /\ net' = [net EXCEPT
                 !.phase = "mounted",
                 !.isOnline = net.onLine,
                 !.initial = net.onLine,
                 !.connectionType =
                     IF HasConnection(net.connection)
                     THEN TypeOrUnknown(net.effectiveType) ELSE @,
                 !.isSlowConnection =
                     IF HasConnection(net.connection)
                     THEN IsSlow(net.effectiveType) ELSE @,
                 !.listeners = Subscribed(net.connection),
                 !.acquired = Subscribed(net.connection)]
    /\ UNCHANGED <<retryVars, clsVars, catchVars, procVars, convVars, now, llmVars,
                   probeVars, serverVars>>

\* the platform goes online or offline and dispatches the event on window;
\* handleOnline / handleOffline (lines 40-41) run if they are registered
Signal(online) ==
    /\ net.onLine # online
    /\ LET event == IF online THEN "online" ELSE "offline"
       IN  net' = [net EXCEPT
                     !.onLine = online,
                     !.lastSignal = IF net.phase = "mounted" THEN event ELSE @,
                     !.isOnline = IF event \in net.listeners THEN online ELSE @]
    /\ UNCHANGED <<retryVars, clsVars, catchVars, procVars, convVars, now, llmVars,
                   probeVars, serverVars>>

\* the quality of the connection changes; handleConnectionChange (lines
\* 27-30) runs if it is registered
QualityChange(effectiveType) ==
    /\ HasConnection(net.connection)
    /\ net.effectiveType # effectiveType
    /\ net' = [net EXCEPT
                 !.effectiveType = effectiveType,
                 !.connectionType =
                     IF "change" \in net.listeners
                     THEN TypeOrUnknown(effectiveType) ELSE @,
                 !.isSlowConnection =
                     IF "change" \in net.listeners
                     THEN IsSlow(effectiveType) ELSE @]
    /\ UNCHANGED <<retryVars, clsVars, catchVars, procVars, convVars, now, llmVars,
                   probeVars, serverVars>>

\* the component unmounts: React runs the cleanup the effect returned
Unmount ==
    /\ net.phase = "mounted"
    /\ net' = [net EXCEPT
                 !.phase = "released",
                 !.listeners = @ \ Released(net.connection),
                 !.released = Released(net.connection)]
    /\ UNCHANGED <<retryVars, clsVars, catchVars, procVars, convVars, now, llmVars,
                   probeVars, serverVars>>

NetNext ==
    \/ Mount
    \/ \E online \in BOOLEAN : Signal(online)
    \/ \E t \in EffectiveTypes : QualityChange(t)
    \/ Unmount

(***************************************************************************)
(* What a failure of generateDiagram becomes: the catch block of           *)
(* LLMService.generateDrawioXML, handleAnthropicError, and the catch block *)
(* of the handler with getHttpStatusForLLMError.                           *)
(***************************************************************************)
UpperCase ==
    <<"A","B","C","D","E","F","G","H","I","J","K","L","M",
      "N","O","P","Q","R","S","T","U","V","W","X","Y","Z">>
LowerCase ==
    <<"a","b","c","d","e","f","g","h","i","j","k","l","m",
      "n","o","p","q","r","s","t","u","v","w","x","y","z">>

\* String.prototype.toLowerCase
ToLowerCase(str) ==
    [i \in 1..Len(str) |->
        IF \E j \in 1..26 : UpperCase[j] = str[i]
        THEN LowerCase[CHOOSE j \in 1..26 : UpperCase[j] = str[i]]
        ELSE str[i]]

\* handleAnthropicError, lines 660-723: the code of the LLMError it returns
handleAnthropicError(message) ==
    LET errorMessage == ToLowerCase(message)
    IN  IF \/ Includes(errorMessage, <<"r","a","t","e"," ","l","i","m","i","t">>)
           \/ Includes(errorMessage, <<"4","2","9">>)
        THEN "RATE_LIMIT_ERROR"
        ELSE IF \/ Includes(errorMessage, <<"q","u","o","t","a">>)
                \/ Includes(errorMessage, <<"b","i","l","l","i","n","g">>)
                \/ Includes(errorMessage, <<"c","r","e","d","i","t","s">>)
        THEN "QUOTA_EXCEEDED"
        ELSE IF /\ Includes(errorMessage, <<"t","i","m","e","o","u","t">>)
                /\ ~Includes(errorMessage, <<"c","o","n","n","e","c","t","i","o","n">>)
                /\ ~Includes(errorMessage, <<"n","e","t","w","o","r","k">>)
        THEN "TIMEOUT_ERROR"
        ELSE IF \/ Includes(errorMessage, <<"n","e","t","w","o","r","k">>)
                \/ Includes(errorMessage, <<"c","o","n","n","e","c","t","i","o","n">>)
                \/ Includes(errorMessage, <<"e","c","o","n","n","r","e","s","e","t">>)
                \/ Includes(errorMessage, <<"e","n","o","t","f","o","u","n","d">>)
                \/ Includes(errorMessage, <<"f","e","t","c","h">>)
        THEN "CONNECTION_ERROR"
        ELSE IF \/ Includes(errorMessage, <<"u","n","a","u","t","h","o","r","i","z","e","d">>)
                \/ Includes(errorMessage, <<"a","u","t","h","e","n","t","i","c","a","t","i","o","n">>)
                \/ Includes(errorMessage, <<"a","p","i"," ","k","e","y">>)
                \/ Includes(errorMessage, <<"4","0","1">>)
        THEN "API_KEY_MISSING"
        ELSE "UNKNOWN_ERROR"

\* A value that is thrown: an LLMError with its code, an Error with its
\* message, or anything else.
AnLLMError(code) == [class |-> "LLMError", code |-> code, message |-> <<>>]
AnError(message) == [class |-> "Error", code |-> "none", message |-> message]
NotAnError == [class |-> "other", code |-> "none", message |-> <<>>]

\* the catch block of generateDrawioXML, lines 583-602: what it throws
generateDrawioXMLCatch(error) ==
    CASE error.class = "LLMError" -> error
      [] error.class = "Error" -> AnLLMError(handleAnthropicError(error.message))
      [] OTHER -> AnLLMError("UNKNOWN_ERROR")

StrApiKeyVariable == <<"A","N","T","H","R","O","P","I","C","_","A","P","I","_","K","E","Y">>

StrInitialize == <<"i","n","i","t","i","a","l","i","z","e">>

\* lines 167 (guarded definition) and 320 (unguarded definition)
IsInitializationError(v, error) ==
    /\ error.class = "Error"
    /\ \/ Includes(error.message, StrApiKeyVariable)
       \/ v = "guarded" /\ Includes(error.message, StrInitialize)

\* the catch block of generateDiagram, lines 156-186 / 308-337: the response
generateDiagramCatch(v, error) ==
    IF error.class = "LLMError"
    THEN ErrorResponse(getHttpStatusForLLMError(error.code), error.code)
    ELSE IF IsInitializationError(v, error)
    THEN ErrorResponse(500, "LLM_CONFIG_ERROR")
    ELSE ErrorResponse(500, "INTERNAL_ERROR")

\* A failure: where it arises, what is thrown there, and its kind.
Fault(stage, kind, error) == [stage |-> stage, kind |-> kind, error |-> error]

ApiFault(kind, message) == Fault("api", kind, AnError(message))

\* the failures: ANTHROPIC_API_KEY is not set (lines 21-24, 522-525), the
\* API call rejects, the content of the answer is rejected (lines 568-576),
\* saveDrawioFile rejects
Faults ==
    { Fault("initialize", "credentials",
            AnError(<<"A","N","T","H","R","O","P","I","C","_","A","P","I","_","K","E","Y"," ","e","n","v","i","r","o","n","m","e","n","t"," ","v","a","r","i","a","b","l","e"," ","i","s"," ","r","e","q","u","i","r","e","d">>)),
      Fault("api", "other", NotAnError),
      Fault("content", "malformed", AnLLMError("INVALID_RESPONSE")),
      Fault("content", "malformed", AnLLMError("INVALID_XML")),
      Fault("saveFile", "other", AnError(<<"E","N","O","S","P","C",":"," ","n","o"," ","s","p","a","c","e"," ","l","e","f","t">>)),
      Fault("saveFile", "other",
            AnError(<<"F","a","i","l","e","d"," ","t","o"," ","i","n","i","t","i","a","l","i","z","e"," ","s","t","o","r","a","g","e">>)),
      ApiFault("rate",
               <<"4","2","9"," ","T","o","o"," ","M","a","n","y"," ","R","e","q","u","e","s","t","s">>),
      ApiFault("rate",
               <<"R","a","t","e"," ","l","i","m","i","t"," ","e","x","c","e","e","d","e","d">>),
      ApiFault("rate",
               <<"t","h","r","o","t","t","l","e","d",":"," ","r","a","t","e"," ","l","i","m","i","t">>),
      ApiFault("quota",
               <<"M","o","n","t","h","l","y"," ","q","u","o","t","a"," ","e","x","c","e","e","d","e","d">>),
      ApiFault("quota",
               <<"B","i","l","l","i","n","g"," ","i","s","s","u","e">>),
      ApiFault("quota",
               <<"i","n","s","u","f","f","i","c","i","e","n","t"," ","c","r","e","d","i","t","s">>),
      ApiFault("timeout",
               <<"T","i","m","e","o","u","t"," ","w","a","i","t","i","n","g"," ","f","o","r"," ","r","e","s","p","o","n","s","e">>),
      ApiFault("timeout",
               <<"G","a","t","e","w","a","y"," ","T","i","m","e","o","u","t">>),
      ApiFault("timeout",
               <<"r","e","q","u","e","s","t"," ","t","i","m","e","o","u","t">>),
      ApiFault("connection",
               <<"C","o","n","n","e","c","t","i","o","n"," ","e","r","r","o","r",".">>),
      ApiFault("connection",
               <<"c","o","n","n","e","c","t"," ","E","C","O","N","N","R","E","S","E","T">>),
      ApiFault("connection",
               <<"g","e","t","a","d","d","r","i","n","f","o"," ","E","N","O","T","F","O","U","N","D">>),
      ApiFault("connection",
               <<"f","e","t","c","h"," ","f","a","i","l","e","d">>),
      ApiFault("connection",
               <<"n","e","t","w","o","r","k"," ","t","i","m","e","o","u","t">>),
      ApiFault("connection",
               <<"C","o","n","n","e","c","t","i","o","n"," ","t","i","m","e","o","u","t">>),
      ApiFault("credentials",
               <<"4","0","1"," ","U","n","a","u","t","h","o","r","i","z","e","d">>),
      ApiFault("credentials",
               <<"a","u","t","h","e","n","t","i","c","a","t","i","o","n","_","e","r","r","o","r">>),
      ApiFault("credentials",
               <<"i","n","v","a","l","i","d"," ","a","p","i"," ","k","e","y">>),
      ApiFault("other",
               <<"O","v","e","r","l","o","a","d","e","d">>),
      ApiFault("other",
               <<"B","a","d"," ","r","e","q","u","e","s","t">>),
      ApiFault("other",
               <<"U","n","e","x","p","e","c","t","e","d"," ","t","o","k","e","n">>) }

NoFault == Fault("none", "none", NotAnError)

CatchState(pc, fault, thrown, response) ==
    [pc |-> pc, fault |-> fault, thrown |-> thrown, response |-> response]

CatchInit == catchSt = CatchState("idle", NoFault, NotAnError, NoResponse)

CatchInputs ==
    \E f \in Faults : catchSt = CatchState("raised", f, f.error, NoResponse)

\* the failure arises inside the try block of generateDrawioXML
InsideLlm(fault) == fault.stage \in {"api", "content"}

\* generateDrawioXML catches the failure and throws an LLMError
LlmCatches ==
    /\ catchSt.pc = "raised"
    /\ InsideLlm(catchSt.fault)
    /\ catchSt' = [catchSt EXCEPT !.pc = "thrown",
                                  !.thrown = generateDrawioXMLCatch(@)]
    /\ UNCHANGED <<retryVars, clsVars, netVars, procVars, convVars, now, llmVars,
                   probeVars, serverVars>>

\* the handler catches what reached it and answers
HandlerCatches ==
    /\ \/ catchSt.pc = "thrown"
       \/ catchSt.pc = "raised" /\ ~InsideLlm(catchSt.fault)
    /\ catchSt' = [catchSt EXCEPT
                     !.pc = "responded",
                     !.response = generateDiagramCatch(ctrlVersion, catchSt.thrown)]
    /\ UNCHANGED <<retryVars, clsVars, netVars, procVars, convVars, now, llmVars,
                   probeVars, serverVars>>

CatchNext ==
    \/ LlmCatches
    \/ HandlerCatches

(***************************************************************************)
(* The process: the interval the constructor of LLMService starts for      *)
(* cleanCache, the HTTP server, and the SIGTERM / SIGINT handlers of       *)
(* startServer.                                                            *)
(***************************************************************************)
Signals == {"SIGTERM", "SIGINT"}

\* interval: the timer of line 533 of LLMService, whose handle the
\* constructor does not keep; server: the server app.listen returned;
\* signal, sweptAfterSignal and sweeps (the parity of the number of sweeps
\* run) are history
ProcInit ==
    proc = [interval |-> "armed", server |-> "listening", signal |-> "none",
            sweptAfterSignal |-> FALSE, sweeps |-> FALSE]

\* Server.close: no new connection is accepted
serverClose(server) == IF server = "listening" THEN "closing" ELSE server

\* index.ts lines 136-141 and 143-148: the handler of the signal
OnSignal(p, sig) ==
    [p EXCEPT !.signal = sig, !.server = serverClose(@)]

\* the process receives SIGTERM or SIGINT
ShutdownSignal(sig) ==
    /\ proc' = OnSignal(proc, sig)
    /\ UNCHANGED <<retryVars, clsVars, netVars, catchVars, convVars, now, llmVars,
                   probeVars, serverVars>>

\* the server has closed: the callback of server.close logs and returns
ServerClosed ==
    /\ proc.server = "closing"
    /\ gen["r1"].pc = "idle"
    /\ proc' = [proc EXCEPT !.server = "closed"]
    /\ UNCHANGED <<retryVars, clsVars, netVars, catchVars, convVars, now, llmVars,
                   probeVars, serverVars>>

\* the interval fires, if it is armed: cleanCache runs
Sweep ==
    /\ proc.interval = "armed"
    /\ cache' = cleanCache(cache, now)
    /\ proc' = [proc EXCEPT !.sweeps = ~@,
                            !.sweptAfterSignal = @ \/ proc.signal # "none"]
    /\ UNCHANGED <<retryVars, clsVars, netVars, catchVars, convVars, now, gen, saved,
                   probeVars, serverVars>>

\* a request reaches generateDrawioXML while the server accepts connections
SweepGenerate(prompt) ==
    /\ proc.server = "listening"
    /\ Generate("r1", prompt)

SweepNext ==
    \/ Tick
    \/ \E prompt \in Prompts : SweepGenerate(prompt)
    \/ \E content \in ModelContents : ModelResolves("r1", content)
    \/ GenerateReturns("r1")
    \/ Sweep
    \/ \E sig \in Signals : ShutdownSignal(sig)
    \/ ServerClosed

(***************************************************************************)
(* The converter call: generatePNGWithFallback, generatePNG and            *)
(* executeDrawioCLI, with the child process, its deadline timer and the    *)
(* file operations around it.  Both definitions of ImageService run the    *)
(* same steps.                                                             *)
(***************************************************************************)
NoResult == [kind |-> "none"]

\* an async function that returns value resolves its promise with it
Resolved(value) == [kind |-> "resolved", value |-> value]

\* pc: the await the call is suspended at; child: the process spawn made;
\* cliTimer: the timer of lines 358-362; cli: the promise of
\* executeDrawioCLI.  available, spawned, settledBy, exitCode and stored are
\* history: what isDrawioCLIAvailable returned, whether the converter was
\* spawned, what settled the promise of executeDrawioCLI, the exit code of
\* the close event that did, and whether savePngFile stored the output.
IdleConv ==
    [pc |-> "idle", available |-> FALSE, child |-> "none", cliTimer |-> "none",
     cli |-> "pending", spawned |-> FALSE, settledBy |-> "none",
     exitCode |-> 0, stored |-> FALSE, result |-> NoResult]

\* the calls of the model: two requests may be converting at once
ConvCalls == {"k1", "k2"}

ConvInit == conv = [k \in ConvCalls |-> IdleConv]

cliCloseResultAnyCode(code) == TRUE

\* lines 338-349: code === 0
cliCloseResult(code) == code = 0

\* lines 299-305: the catch block of generatePNG returns the failure
generatePNGCatch(c) ==
    [c EXCEPT !.pc = "resolved", !.result = Resolved(generatePNG("threw"))]

\* lines 274-281 and 283: generatePNG resumes when the promise of
\* executeDrawioCLI is resolved
AfterCli(c, success) ==
    IF success THEN [c EXCEPT !.pc = "readFile"]
    ELSE [c EXCEPT !.pc = "resolved",
                   !.result = Resolved(generatePNG("cliFailed"))]

\* resolve(value) of the promise of executeDrawioCLI: the first call settles
\* it, later calls do nothing
cliResolve(c, value, by, code) ==
    IF c.cli # "pending" THEN c
    ELSE AfterCli([c EXCEPT !.cli = IF value THEN "true" ELSE "false",
                            !.settledBy = by, !.exitCode = code], value)

\* generatePNGWithFallback is called and isDrawioCLIAvailable has returned:
\* lines 460-470; generatePNG runs up to the await of fs.access (line 264)
ConvCall(k, available) ==
    /\ conv[k].pc = "idle"
    /\ conv' = [conv EXCEPT ![k] =
           IF available
           THEN [IdleConv EXCEPT !.pc = "access", !.available = TRUE]
           ELSE [IdleConv EXCEPT !.pc = "resolved",
                                 !.result = Resolved(UnavailableResult)]]
    /\ UNCHANGED <<retryVars, clsVars, netVars, catchVars, procVars, now, llmVars,
                   probeVars, serverVars>>

\* fs.access settled: the input file exists and executeDrawioCLI spawns the
\* converter and arms its timer (lines 272, 324-327, 358-362), or the file is
\* missing and the catch block returns
AccessSettles(k, exists) ==
    /\ conv[k].pc = "access"
    /\ conv' = [conv EXCEPT ![k] =
           IF exists
           THEN [conv[k] EXCEPT !.pc = "cli", !.child = "running",
                             !.cliTimer = "armed", !.spawned = TRUE]
           ELSE generatePNGCatch(conv[k])]
    /\ UNCHANGED <<retryVars, clsVars, netVars, catchVars, procVars, now, llmVars,
                   probeVars, serverVars>>

\* process.on('close'): both handlers run (lines 338-349 and 364-366)
CliClose(k, code) ==
    /\ conv[k].child \in {"running", "killed", "failed"}
    /\ conv' = [conv EXCEPT ![k] =
           [cliResolve(conv[k], cliCloseResult(code), "close", code)
            EXCEPT !.child = "closed",
                   !.cliTimer = IF @ = "armed" THEN "cleared" ELSE @]]
    /\ UNCHANGED <<retryVars, clsVars, netVars, catchVars, procVars, now, llmVars,
                   probeVars, serverVars>>

\* process.on('error'): the converter could not be started (lines 351-354)
CliError(k) ==
    /\ conv[k].child = "running"
    /\ conv[k].cli = "pending"
    /\ conv' = [conv EXCEPT ![k] =
           [cliResolve(conv[k], FALSE, "error", 0) EXCEPT !.child = "failed"]]
    /\ UNCHANGED <<retryVars, clsVars, netVars, catchVars, procVars, now, llmVars,
                   probeVars, serverVars>>

\* the timer fires, if it is armed: process.kill('SIGTERM') and resolve(false)
\* (lines 358-362)
CliTimeout(k) ==
    /\ conv[k].cliTimer = "armed"
    /\ conv' = [conv EXCEPT ![k] =
           [cliResolve(conv[k], FALSE, "timeout", 0)
            EXCEPT !.cliTimer = "fired",
                   !.child = IF @ = "running" THEN "killed" ELSE @]]
    /\ UNCHANGED <<retryVars, clsVars, netVars, catchVars, procVars, now, llmVars,
                   probeVars, serverVars>>

\* fs.readFile of the output settled (line 283): the catch block returns
\* when the output file is missing
ReadSettles(k, exists) ==
    /\ conv[k].pc = "readFile"
    /\ conv' = [conv EXCEPT ![k] =
           IF exists THEN [conv[k] EXCEPT !.pc = "savePng"]
           ELSE generatePNGCatch(conv[k])]
    /\ UNCHANGED <<retryVars, clsVars, netVars, catchVars, procVars, now, llmVars,
                   probeVars, serverVars>>

\* fileService.savePngFile settled (line 285)
SaveSettles(k, saved_) ==
    /\ conv[k].pc = "savePng"
    /\ conv' = [conv EXCEPT ![k] =
           IF saved_ THEN [conv[k] EXCEPT !.pc = "unlink", !.stored = TRUE]
           ELSE generatePNGCatch(conv[k])]
    /\ UNCHANGED <<retryVars, clsVars, netVars, catchVars, procVars, now, llmVars,
                   probeVars, serverVars>>

\* fs.unlink settled (lines 288-292): a failure is logged and ignored, and
\* generatePNG returns the image id (lines 294-297)
UnlinkSettles(k, removed) ==
    /\ conv[k].pc = "unlink"
    /\ conv' = [conv EXCEPT ![k] =
           [conv[k] EXCEPT !.pc = "resolved",
                           !.result = Resolved(generatePNG("ok"))]]
    /\ UNCHANGED <<retryVars, clsVars, netVars, catchVars, procVars, now, llmVars,
                   probeVars, serverVars>>

\* The caller has taken the result and nothing of the call is pending: the
\* next call is made.
ConvReturns(k) ==
    /\ conv[k].pc = "resolved"
    /\ conv[k].child \notin {"running", "killed"}
    /\ conv[k].cliTimer # "armed"
    /\ conv' = [conv EXCEPT ![k] = IdleConv]
    /\ UNCHANGED <<retryVars, clsVars, netVars, catchVars, procVars, now, llmVars,
                   probeVars, serverVars>>

\* the steps of call k
ConvStep(k) ==
    \/ \E available \in BOOLEAN : ConvCall(k, available)
    \/ \E exists \in BOOLEAN : AccessSettles(k, exists)
    \/ \E code \in ExitCodes : CliClose(k, code)
    \/ CliError(k)
    \/ CliTimeout(k)
    \/ \E exists \in BOOLEAN : ReadSettles(k, exists)
    \/ \E saved_ \in BOOLEAN : SaveSettles(k, saved_)
    \/ \E removed \in BOOLEAN : UnlinkSettles(k, removed)
    \/ ConvReturns(k)

ConvNext == \E k \in ConvCalls : ConvStep(k)

(***************************************************************************)
(* Specifications                                                          *)
(***************************************************************************)
Init ==
    /\ RetryInit /\ ClsInit /\ NetInit /\ CatchInit /\ ProcInit /\ ConvInit
    /\ LlmInit /\ ProbeInit /\ ThrottleInit /\ CtlInit
    /\ version = "cached"
    /\ ctrlVersion = "guarded"

\* either definition of ImageService may be the one that runs
InitProbe ==
    /\ RetryInit /\ ClsInit /\ NetInit /\ CatchInit /\ ProcInit /\ ConvInit
    /\ LlmInit /\ ProbeInit /\ ThrottleInit /\ CtlInit
    /\ version \in Versions
    /\ ctrlVersion = "guarded"

\* either definition of DiagramController may be the one that runs
InitCtl ==
    /\ RetryInit /\ ClsInit /\ NetInit /\ CatchInit /\ ProcInit /\ ConvInit
    /\ LlmInit /\ ProbeInit /\ ThrottleInit /\ CtlInit
    /\ version = "cached"
    /\ ctrlVersion \in CtrlVersions

SpecRetry == Init /\ [][RetryNext]_vars

SpecRetryFair == SpecRetry /\ WF_vars(RetryNext)

SpecLlm == Init /\ [][LlmNext]_vars

SpecFill == Init /\ [][FillNext]_vars

SpecProbe == InitProbe /\ [][ProbeNext]_vars

SpecThrottle == Init /\ [][ThrottleNext]_vars

SpecCtl == InitCtl /\ [][CtlNext]_vars

\* categorizeError applied to every failure and status of the model
InitClassify ==
    /\ RetryInit /\ ClsInputs /\ NetInit /\ CatchInit /\ ProcInit /\ ConvInit
    /\ LlmInit /\ ProbeInit /\ ThrottleInit /\ CtlInit
    /\ version = "cached"
    /\ ctrlVersion = "guarded"

SpecClassify == InitClassify /\ [][ClassifyNext]_vars

\* the hook on every platform of the model
InitNet ==
    /\ RetryInit /\ ClsInit /\ NetInputs /\ CatchInit /\ ProcInit /\ ConvInit
    /\ LlmInit /\ ProbeInit /\ ThrottleInit /\ CtlInit
    /\ version = "cached"
    /\ ctrlVersion = "guarded"

SpecNet == InitNet /\ [][NetNext]_vars

\* every failure of the model, under either definition of DiagramController
InitCatch ==
    /\ RetryInit /\ ClsInit /\ NetInit /\ CatchInputs /\ ProcInit /\ ConvInit
    /\ LlmInit /\ ProbeInit /\ ThrottleInit /\ CtlInit
    /\ version = "cached"
    /\ ctrlVersion \in CtrlVersions

SpecCatch == InitCatch /\ [][CatchNext]_vars

SpecSweep == Init /\ [][SweepNext]_vars

SpecConv == Init /\ [][ConvNext]_vars

\* every await of a call settles and an armed timer fires
SpecConvFair == SpecConv /\ \A k \in ConvCalls : WF_vars(ConvStep(k))

(***************************************************************************)
(* Properties of the CLI availability probe and its cache                  *)
(***************************************************************************)
Started(c) == calls[c].pc # "idle"

WithinOneWindow(a, b) ==
    /\ a # b
    /\ Started(a) /\ Started(b)
    /\ calls[a].calledAt - calls[b].calledAt < CACHE_DURATION
    /\ calls[b].calledAt - calls[a].calledAt < CACHE_DURATION

\* C8 as stated: of any two calls of the cached isDrawioCLIAvailable made less
\* than one freshness window apart, overlapping calls included, at most one
\* invokes the probe.
C8_AtMostOneProbePerWindow ==
    version = "cached" =>
        \A a \in Callers, b \in Callers :
            WithinOneWindow(a, b) => ~(calls[a].probed /\ calls[b].probed)

\* C8 amended: of any two calls of the cached isDrawioCLIAvailable made less
\* than one freshness window apart, neither of them made while the probe of
\* another call was in flight, at most one invokes the probe.
C8_AtMostOneProbePerWindowSequential ==
    version = "cached" =>
        \A a \in Callers, b \in Callers :
            (WithinOneWindow(a, b) /\ ~calls[a].overlapped /\ ~calls[b].overlapped)
            => ~(calls[a].probed /\ calls[b].probed)

\* one call probed and wrote the record, the other was made afterwards within
\* the window and was served from the record
C8_Witness ==
    /\ version = "cached"
    /\ \E a \in Callers, b \in Callers :
          /\ WithinOneWindow(a, b)
          /\ ~calls[a].overlapped /\ ~calls[b].overlapped
          /\ calls[a].pc = "done" /\ calls[a].probed
          /\ calls[b].pc = "done" /\ ~calls[b].probed
          /\ calls[b].ret = calls[a].ret
          /\ cliCache.exists

RecordIsFresh ==
    cliCache.exists /\ now - cliCache.timestamp < CACHE_DURATION

\* C9: a call of the cached isDrawioCLIAvailable returns the recorded value,
\* positive or negative, without spawning a probe and without touching the
\* record exactly when a record exists with now - timestamp < CACHE_DURATION;
\* otherwise it spawns the probe, and when the probe settles the record is
\* replaced by the probe's result stamped with the current time, which is
\* also what the call returns; nothing else changes the record.
C9_FreshRecordServedElseProbed ==
    /\ [][ \A c \in Callers :
             (version = "cached" /\ calls[c].pc = "idle" /\ calls'[c].pc # "idle")
             => IF RecordIsFresh
                THEN /\ calls'[c].pc = "done"
                     /\ calls'[c].ret = cliCache.available
                     /\ ~calls'[c].probed
                     /\ calls'[c].proc = "none"
                     /\ cliCache' = cliCache
                ELSE /\ calls'[c].pc = "probing"
                     /\ calls'[c].probed
                     /\ calls'[c].proc = "running"
                     /\ cliCache' = cliCache ]_vars
    /\ [][ \A c \in Callers :
             (version = "cached" /\ calls[c].pc = "probing" /\ calls'[c].pc = "done")
             => cliCache' = [exists |-> TRUE, available |-> calls'[c].ret,
                             timestamp |-> now] ]_vars
    /\ [][ cliCache' # cliCache
             => \E c \in Callers :
                  calls[c].pc = "probing" /\ calls'[c].pc = "done" ]_vars

\* a negative record of age below the window was served without a probe
C9_Witness ==
    /\ version = "cached"
    /\ cliCache = [exists |-> TRUE, available |-> FALSE, timestamp |-> 1]
    /\ now = 1
    /\ \E c \in Callers :
          /\ calls[c].pc = "done" /\ ~calls[c].probed /\ calls[c].ret = FALSE
          /\ calls[c].calledAt = 1

\* C10: in both versions a probe settles at the first of close, error and
\* deadline and keeps that result whatever follows; the result is true only
\* when a close with exit code 0 settled it, false for a non-zero or null
\* exit code, for a failure to start and for the deadline, also when the
\* process closes with code 0 after the deadline fired.
C10_ProbeSettlesOnceWithBoolean ==
    /\ []( \A c \in Callers :
            /\ calls[c].ret \in BOOLEAN
            /\ (calls[c].probed /\ calls[c].pc = "done")
               => /\ calls[c].settledBy \in {"close", "error", "timeout"}
                  /\ calls[c].ret =
                        (calls[c].settledBy = "close" /\ calls[c].exitCode = 0)
            /\ calls[c].pc = "probing"
               => /\ calls[c].proc = "running"
                  /\ calls[c].timer = "armed"
                  /\ ~calls[c].errored )
    /\ [][ \A c \in Callers :
             (calls[c].pc = "done" /\ calls'[c].pc = "done")
             => /\ calls'[c].ret = calls[c].ret
                /\ calls'[c].settledBy = calls[c].settledBy ]_vars

\* the deadline settled the probe with false and the process then closed
\* with exit code 0
C10_Witness ==
    \E c \in Callers :
        /\ calls[c].pc = "done"
        /\ calls[c].settledBy = "timeout"
        /\ calls[c].proc = "closed"
        /\ calls[c].exitCode = 0
        /\ calls[c].ret = FALSE

(***************************************************************************)
(* Properties of the LLMService cache                                      *)
(***************************************************************************)
\* C5: in every reachable state the cache holds at most MAX_CACHE_SIZE
\* entries (one per key) and every entry has expiresAt = timestamp + TTL.
C5_CacheBoundedAndTtl ==
    /\ Len(cache) <= MAX_CACHE_SIZE
    /\ \A i \in 1..Len(cache) :
          /\ cache[i].expiresAt = cache[i].timestamp + CACHE_TTL
          /\ \A j \in 1..Len(cache) : cache[i].key = cache[j].key => i = j

\* a full cache whose newest entry was written at the last tick, after at
\* least one lookup found an expired entry
C5_Witness ==
    /\ Len(cache) = MAX_CACHE_SIZE
    /\ cache[Len(cache)].timestamp = MaxTime
    /\ cache[1].timestamp < MaxTime
    /\ \E r \in Reqs : gen[r].pc = "awaitModel" /\ gen[r].lookup = "expired"

\* C6: after MAX_CACHE_SIZE + 1 insertions with distinct keys into the empty
\* cache, with no entry expired, the cache holds exactly MAX_CACHE_SIZE
\* entries: the first-inserted key is gone and the survivors are the second
\* to last inserted keys in insertion order.
C6_FirstInsertedEvicted ==
    (Len(saved) = MAX_CACHE_SIZE + 1 /\ now <= CACHE_TTL) =>
        /\ Len(cache) = MAX_CACHE_SIZE
        /\ ~MapHas(cache, saved[1])
        /\ \A i \in 1..MAX_CACHE_SIZE : cache[i].key = saved[i + 1]

C6_Witness ==
    /\ Len(saved) = MAX_CACHE_SIZE + 1
    /\ now <= CACHE_TTL
    /\ Cardinality(SavedKeys) = MAX_CACHE_SIZE + 1
    /\ cache[1].key = saved[2]

\* this step is a call of generateDrawioXML by r
Calls(r) == gen[r].pc = "idle" /\ gen'[r].pc # "idle"

HasExpiredEntry(c, key, t) ==
    \E i \in 1..Len(c) : c[i].key = key /\ t > c[i].expiresAt

Without(c, key) == SelectSeq(c, LAMBDA e : e.key # key)

\* C7: a lookup of an entry whose TTL has elapsed misses (the API is called)
\* and removes exactly that entry, the others keeping their order; a lookup
\* of a key that is not in the Map, such a removed key included, misses and
\* leaves the cache as it is; the removed key stays out of the Map until a
\* saveToCache of that key.
C7_ExpiredLookupRemoves ==
    /\ [][ \A r \in Reqs :
             Calls(r) =>
               \A p \in Prompts :
                 (Generate(r, p) /\ HasExpiredEntry(cache, KeyOf[p], now))
                 => /\ gen'[r].pc = "awaitModel"
                    /\ gen'[r].ret = [kind |-> "none"]
                    /\ cache' = Without(cache, KeyOf[p])
                    /\ Len(cache') = Len(cache) - 1 ]_vars
    /\ [][ \A r \in Reqs :
             Calls(r) =>
               \A p \in Prompts :
                 (Generate(r, p) /\ ~MapHas(cache, KeyOf[p]))
                 => /\ gen'[r].pc = "awaitModel"
                    /\ cache' = cache ]_vars
    /\ [][ cache' # cache =>
             \A p \in Prompts :
               (~MapHas(cache, KeyOf[p]) /\ MapHas(cache', KeyOf[p]))
               => \E r \in Reqs :
                    /\ gen[r].pc = "awaitModel" /\ gen[r].key = KeyOf[p]
                    /\ gen'[r].ret.kind = "returned"
                    /\ cache'[Len(cache')].key = KeyOf[p] ]_vars

\* the lookup found the entry expired and removed it; the call awaits the API
C7_Witness ==
    \E r \in Reqs :
        /\ gen[r].pc = "awaitModel"
        /\ gen[r].lookup = "expired"
        /\ ~MapHas(cache, gen[r].key)
        /\ Len(cache) = MAX_CACHE_SIZE - 1

(***************************************************************************)
(* Properties of fetchWithRetry                                            *)
(***************************************************************************)
LastOutcome == outcomes[Len(outcomes)]

\* An attempt ended in this step: fetchWithTimeout settled.
AttemptEnded == Len(outcomes') = Len(outcomes) + 1

EndedOutcome == outcomes'[Len(outcomes')]

AllServerErrors ==
    \A i \in 1..Len(outcomes) :
        outcomes[i].kind = "response" /\ outcomes[i].status >= 500

\* C1: when every attempt is answered with a 5xx response, the dispatch makes
\* exactly maxRetries + 1 attempts and returns (does not throw) the response
\* of the final attempt.
C1_ServerErrorsExhaustRetries ==
    (rpc = "done" /\ AllServerErrors) =>
        /\ Len(outcomes) = maxRetries + 1
        /\ result = [kind |-> "returned", status |-> LastOutcome.status]

C1_Witness ==
    /\ rpc = "done"
    /\ maxRetries = 2
    /\ Len(outcomes) = 3
    /\ AllServerErrors
    /\ result = [kind |-> "returned", status |-> 500]

\* C2: a response with a success status or a 4xx status ends the dispatch at
\* the attempt that received it: it is returned in the same step, no backoff
\* wait is added and no attempt follows; a first response 404 means one
\* attempt in total.
C2_SuccessOrClientErrorReturnsAtOnce ==
    /\ [][ (/\ AttemptEnded
            /\ EndedOutcome.kind = "response"
            /\ \/ EndedOutcome.status \in 200..299
               \/ EndedOutcome.status \in 400..499)
           => /\ rpc' = "done"
              /\ result' = [kind |-> "returned", status |-> EndedOutcome.status]
              /\ waits' = waits ]_vars
    /\ [][ rpc = "done" => (rpc' = "done" /\ outcomes' = outcomes
                              /\ waits' = waits /\ result' = result) ]_vars
    /\ []( (Len(outcomes) >= 1 /\ outcomes[1] = Resp(404))
            => (Len(outcomes) = 1 /\ rpc = "done") )

C2_Witness ==
    /\ rpc = "done"
    /\ maxRetries = 2
    /\ outcomes = <<Resp(404)>>
    /\ waits = <<>>
    /\ result = [kind |-> "returned", status |-> 404]

TimedOutFailure == [name |-> "Error", message |-> StrRequestTimedOut]

\* C3: a thrown failure is followed by a backoff (a retry) only if it is a
\* network error and attempts remain; every other failure, the deadline
\* expiry of fetchWithTimeout included, is thrown to the caller in the same
\* step and no attempt follows.
C3_OnlyNetworkFailuresRetried ==
    [][ (AttemptEnded /\ EndedOutcome.kind = "failure")
        => IF isNetworkError(EndedOutcome.error) /\ attempt < maxRetries
                /\ EndedOutcome.error # TimedOutFailure
           THEN rpc' = "backoff" /\ result' = result
           ELSE /\ rpc' = "done"
                /\ result' = [kind |-> "thrown", error |-> EndedOutcome.error]
                /\ waits' = waits ]_vars

C3_Witness ==
    /\ rpc = "done"
    /\ maxRetries = 2
    /\ Len(outcomes) = 2
    /\ outcomes[1].kind = "failure"
    /\ isNetworkError(outcomes[1].error)
    /\ outcomes[2] = Fail(TimedOutFailure)
    /\ result = [kind |-> "thrown", error |-> TimedOutFailure]

OutcomeOfLastAttempt ==
    IF LastOutcome.kind = "response"
    THEN [kind |-> "returned", status |-> LastOutcome.status]
    ELSE [kind |-> "thrown", error |-> LastOutcome.error]

\* C4: whatever the collaborator does, the dispatch makes at most
\* maxRetries + 1 attempts (indices 0..maxRetries), a started dispatch
\* terminates, and what it returns or throws is the outcome of the last
\* attempt made.
C4_BoundedAttemptsLastOutcome ==
    /\ []( /\ Len(outcomes) <= maxRetries + 1
           /\ attempt <= maxRetries
           /\ rpc = "fetching" => Len(outcomes) = attempt
           /\ rpc = "done" => (Len(outcomes) >= 1 /\ result = OutcomeOfLastAttempt) )
    /\ (rpc = "fetching") ~> (rpc = "done")

C4_Witness ==
    /\ rpc = "done"
    /\ maxRetries = 2
    /\ Len(outcomes) = 3
    /\ outcomes[1].kind = "failure"
    /\ outcomes[2].kind = "response"
    /\ outcomes[3].kind = "failure"
    /\ result = [kind |-> "thrown", error |-> outcomes[3].error]

(***************************************************************************)
(* Properties of the rateLimit middleware                                  *)
(***************************************************************************)
Handled == lastReq.client # "none"

\* C11: a request is passed on iff the client's count after counting it is
\* at most maxRequests, a denied request gets status 429, and of the
\* requests counted by a client's record exactly the first maxRequests were
\* passed on, whatever the other clients did in between.
C11_FirstMaxRequestsAllowed ==
    /\ Handled =>
          /\ lastReq.allowed <=> lastReq.count <= maxRequests
          /\ lastReq.status = IF lastReq.allowed THEN 0 ELSE 429
          /\ rateLimitStore[lastReq.client] =
                 ThrottleRecord(lastReq.count, lastReq.resetTime)
    /\ \A c \in Clients :
          rateLimitStore[c].exists =>
              /\ rateLimitStore[c].count >= 1
              /\ passed[c] = IF rateLimitStore[c].count <= maxRequests
                             THEN rateLimitStore[c].count ELSE maxRequests

\* a client was denied after exactly maxRequests of its requests passed,
\* while another client holds a record of its own
C11_Witness ==
    /\ Handled /\ ~lastReq.allowed
    /\ lastReq.count = maxRequests + 1
    /\ passed[lastReq.client] = maxRequests
    /\ \E o \in Clients \ {lastReq.client} :
          rateLimitStore[o].exists /\ rateLimitStore[o].count <= maxRequests

\* C12: a request arriving at now >= windowResetAt of the client's record,
\* now = windowResetAt included, restarts the window (count 1, windowResetAt
\* now + windowLength, request allowed); a request with now < windowResetAt
\* increments the count.
C12_WindowRestartsFromResetTime ==
    (Handled /\ lastReq.before.exists) =>
        IF lastReq.at >= lastReq.before.resetTime
        THEN /\ lastReq.count = 1
             /\ lastReq.resetTime = lastReq.at + windowMs
             /\ lastReq.allowed
        ELSE /\ lastReq.count = lastReq.before.count + 1
             /\ lastReq.resetTime = lastReq.before.resetTime

\* C13: every denied request carries a resetAt strictly after the time of
\* the request and a positive retryAfter.
C13_DenialResetInFuture ==
    (Handled /\ ~lastReq.allowed) =>
        /\ lastReq.resetTime > lastReq.at
        /\ lastReq.retryAfter > 0

(***************************************************************************)
(* Properties of requestTimeout and DiagramController.generateDiagram      *)
(***************************************************************************)
TimeoutResponse == ErrorResponse(408, "REQUEST_TIMEOUT")

\* C14: at most one response is written per request; when the deadline
\* timer finds no response written it writes the 408 REQUEST_TIMEOUT
\* response, once; and the handler makes no attempt to respond after the
\* headers were sent, on its success path or its error path.
C14_TimeoutOnceHandlerSuppressed ==
    /\ Len(ctl.responses) <= 1
    /\ ctl.headersSent <=> Len(ctl.responses) = 1
    /\ (ctl.timer = "fired" /\ ctl.pc # "done") => ctl.responses = <<TimeoutResponse>>
    /\ ctl.lateAttempts = 0
    /\ ~ctl.rejected

PreviewFailed ==
    \/ ctl.available = "no"
    \/ ctl.conversion \in ConversionOutcomes \ {"ok"}

\* C17: once the artifact was obtained and stored, the handler ends with a
\* success response carrying the download URL; if the converter is
\* unavailable or the conversion fails the response carries a warning and no
\* image URL, and an image URL is present only when the converter was
\* available and the conversion succeeded.  A response the handler writes is
\* that response.
C17_StoredArtifactMeansSuccess ==
    (ctl.pc = "done" /\ ctl.downloadUrl # NoUrl) =>
        /\ ctl.built.kind = "success"
        /\ ctl.built.status = 200
        /\ ctl.built.downloadUrl = ctl.downloadUrl
        /\ ctl.xml # NoXml
        /\ PreviewFailed =>
              /\ ctl.built.imageUrl = NoUrl
              /\ Len(ctl.built.message) > 0
              /\ ctl.built.message # DefaultMessage
        /\ ctl.built.imageUrl # NoUrl =>
              ctl.available = "yes" /\ ctl.conversion = "ok"
        /\ \A i \in 1..Len(ctl.responses) :
              ctl.responses[i] # TimeoutResponse => ctl.responses[i] = ctl.built

\* the converter was unavailable and the handler answered success with a
\* warning and no image URL
C17_Witness ==
    /\ ctl.pc = "done"
    /\ ctl.available = "no"
    /\ ctl.responses = <<ctl.built>>
    /\ ctl.built.kind = "success"
    /\ ctl.built.imageUrl = NoUrl
    /\ ctl.built.downloadUrl # NoUrl

HasEntry(c, key, xml) == \E i \in 1..Len(c) : c[i].key = key /\ c[i].xml = xml

\* C18: when the model call of a request succeeds, the XML is in the cache
\* in the very step generateDrawioXML returns, before the handler has built
\* or written its response; and it is still there, unexpired, when the
\* handler has answered, whatever the preview step did.
C18_StoredBeforeResponse ==
    /\ [][ (gen[Rq].pc = "awaitModel" /\ gen'[Rq].ret.kind = "returned")
           => /\ HasEntry(cache', gen[Rq].key, gen'[Rq].ret.xml)
              /\ ctl.pc = "callLlm"
              /\ ctl.built = NoResponse
              /\ \A i \in 1..Len(ctl.responses) :
                    ctl.responses[i] = TimeoutResponse ]_vars
    /\ [][ (ctl.xml # NoXml /\ ~ctl.fromCache /\ ctl'.prompt = ctl.prompt
            /\ now' <= ctl.at + CACHE_TTL)
           => HasEntry(cache', KeyOf[ctl.prompt], ctl.xml) ]_vars

\* the model was called, the conversion failed, the handler answered, and
\* the entry is in the cache
C18_Witness ==
    /\ ctl.pc = "done"
    /\ ~ctl.fromCache
    /\ ctl.conversion = "cliFailed"
    /\ ctl.responses = <<ctl.built>>
    /\ HasEntry(cache, KeyOf[ctl.prompt], ctl.xml)

LiveEntry(c, key, t) == \E i \in 1..Len(c) : c[i].key = key /\ t <= c[i].expiresAt

\* C15: a call of generateDrawioXML whose key has an unexpired entry returns
\* the XML of that entry at once, does not call the model and leaves the
\* cache as it is.
C15_HitSkipsModel ==
    [][ \A r \in Reqs :
          Calls(r) =>
            \A p \in Prompts :
              (Generate(r, p) /\ LiveEntry(cache, KeyOf[p], now))
              => /\ gen'[r] = Returned(FALSE, cache[MapIndex(cache, KeyOf[p])].xml)
                 /\ ~gen'[r].calledModel
                 /\ cache' = cache ]_vars

\* a call was served from the cache while another call awaits the model
C15_Witness ==
    \E r \in Reqs, o \in Reqs :
        /\ gen[r].pc = "done" /\ gen[r].lookup = "hit"
        /\ gen[r].ret.kind = "returned"
        /\ gen[o].pc = "awaitModel"

(***************************************************************************)
(* Properties of fetchWithTimeout and categorizeError                      *)
(***************************************************************************)
\* C19: an attempt whose deadline timer fired before the fetch settled fails
\* with a failure that categorizeError puts in the timeout category and
\* isNetworkError rejects; an attempt whose fetch settled first ends with
\* the response of the fetch or with the very failure the fetch rejected
\* with.
C19_DeadlineGivesTimeoutElseUnchanged ==
    [][ AttemptEnded =>
          IF aborted
          THEN /\ LastOutcome'.kind = "failure"
               /\ categorizeError(LastOutcome'.error, NoStatus).category = "timeout"
               /\ isTimeoutError(LastOutcome'.error)
               /\ ~isNetworkError(LastOutcome'.error)
          ELSE \/ /\ LastOutcome'.kind = "response"
                  /\ LastOutcome'.status \in Statuses
               \/ /\ LastOutcome'.kind = "failure"
                  /\ LastOutcome'.error \in TransportErrors ]_vars

\* the timer fired and the attempt failed with the timed-out failure, which
\* was not retried
C19_Witness ==
    /\ timer = "fired"
    /\ Len(outcomes) > 0
    /\ LastOutcome = Fail([name |-> "Error", message |-> StrRequestTimedOut])
    /\ result = [kind |-> "thrown", error |-> LastOutcome.error]

MentionsNetwork(message) ==
    \/ Includes(message, StrNetwork)
    \/ Includes(message, StrFetch)
    \/ Includes(message, StrNetworkError)

\* C20: for every failure whose message contains "network", "fetch" or
\* "NetworkError", with any status or none, categorizeError returns the
\* network category with isRetryable true.
C20_NetworkMessagesAreNetwork ==
    (clsOut # NoInfo /\ MentionsNetwork(clsIn.error.message)) =>
        /\ clsOut.category = "network"
        /\ clsOut.isRetryable

\* a failure whose message names both the network and a timeout, classified
\* with a server status at hand
C20_Witness ==
    /\ clsOut.category = "network"
    /\ clsIn.error.name = "Error"
    /\ clsIn.error.message = StrNetworkTimeout
    /\ clsIn.status = 503

(***************************************************************************)
(* Properties of ErrorHandler.categorizeError, handleError and             *)
(* extractErrorFromResponse                                                *)
(***************************************************************************)
Classified == clsOut # NoInfo

\* the call reaches categorizeError with the failure and status given
ByCategorize ==
    \/ clsIn.op = "categorizeError"
    \/ clsIn.op = "handleError" /\ clsIn.thrown = "Error"

\* extractErrorFromResponse falls back to categorizeError
ByFallback ==
    clsIn.op = "extractErrorFromResponse" /\ ~HasMessage(clsIn.payload)

NoSignature(error) == ~isNetworkError(error) /\ ~isTimeoutError(error)

StatusRule ==
    /\ clsIn.status >= 500 =>
          clsOut.category = "server" /\ clsOut.isRetryable
    /\ (clsIn.status >= 400 /\ clsIn.status < 500) =>
          clsOut.category = "client"

\* C21 as stated: whenever a status is given, a status >= 500 yields the
\* server category with isRetryable true and a status in [400,500) the
\* client category, whatever the failure.
C21_StatusAloneDecides ==
    (Classified /\ ByCategorize /\ clsIn.status # NoStatus) => StatusRule

\* C21: for a failure that matches neither the network nor the timeout rule
\* (the fallback of extractErrorFromResponse included), a status >= 500
\* yields the server category with isRetryable true and a status in
\* [400,500) yields the client category.
C21_StatusDecidesWithoutSignature ==
    (/\ Classified
     /\ clsIn.status # NoStatus
     /\ \/ ByCategorize /\ NoSignature(clsIn.error)
        \/ ByFallback) => StatusRule

\* a plain Error classified with status 500, the lowest server status
C21_Witness ==
    /\ clsIn.op = "categorizeError"
    /\ clsIn.error = [name |-> "Error", message |-> StrBoom]
    /\ clsIn.status = 500
    /\ clsOut.category = "server"
    /\ clsOut.isRetryable

\* the failure matches none of the network, timeout, server and client rules
MatchesNoRule ==
    \/ /\ ByCategorize
       /\ NoSignature(clsIn.error)
       /\ clsIn.status = NoStatus \/ clsIn.status < 400
    \/ clsIn.op = "handleError" /\ clsIn.thrown # "Error"
    \/ ByFallback /\ clsIn.status < 400

C23_ClientErrorsRetryablePayloadOnlyMessage ==
    (/\ Classified
     /\ clsIn.op = "extractErrorFromResponse"
     /\ clsIn.status >= 400 /\ clsIn.status < 500) =>
        LET byStatus == categorizeError(HttpError(clsIn.status), clsIn.status)
        IN  /\ clsOut.isRetryable
            /\ byStatus.isRetryable
            /\ IF HasMessage(clsIn.payload)
               THEN clsOut = [byStatus EXCEPT !.message = PayloadMessage,
                                              !.category = "payload"]
               ELSE clsOut = byStatus

\* C29: categorizeError applies its rules in the order network, timeout,
\* server status, client status, unknown, and the first that matches
\* decides.
C29_FirstMatchingRuleDecides ==
    (Classified /\ ByCategorize) =>
        clsOut.category =
            IF isNetworkError(clsIn.error) THEN "network"
            ELSE IF isTimeoutError(clsIn.error) THEN "timeout"
            ELSE IF clsIn.status # NoStatus /\ clsIn.status >= 500 THEN "server"
            ELSE IF clsIn.status # NoStatus /\ clsIn.status >= 400 THEN "client"
            ELSE "unknown"

\* a failure with a timeout signature only, classified with a client status
C29_Witness ==
    /\ clsIn.op = "categorizeError"
    /\ clsIn.error = [name |-> "TimeoutError", message |-> StrBoom]
    /\ clsIn.status = 404
    /\ clsOut.category = "timeout"

(***************************************************************************)
(* Properties of the error responses of the generate endpoint              *)
(***************************************************************************)
\* the status the kinds of failure are to be answered with
StatusOfKind(kind) ==
    CASE kind = "rate" -> 429
      [] kind = "quota" -> 402
      [] kind = "credentials" -> 401
      [] kind = "malformed" -> 422
      [] kind \in {"connection", "timeout"} -> 503
      [] OTHER -> 500

ErrorShape(response) ==
    /\ response.kind = "error"
    /\ response.message # <<>>
    /\ response.code # "none"

\* C24: the error response has the status of the kind of the failure (rate
\* exceeded 429, quota or billing 402, missing credentials 401, malformed
\* model output 422, connection or timeout failure 503, anything else 500)
\* and the shape {status: "error", message, code}.
C24_StatusIsFunctionOfFailureKind ==
    catchSt.pc = "responded" =>
        /\ catchSt.response.status = StatusOfKind(catchSt.fault.kind)
        /\ ErrorShape(catchSt.response)

(***************************************************************************)
(* Properties of useNetworkStatus                                          *)
(***************************************************************************)
\* C25: while the hook is mounted, isOnline is what the last online/offline
\* signal since the effect ran said, or navigator.onLine as the effect read
\* it if there was none, with or without the Connection API.
C25_ConnectivityFollowsLastSignal ==
    net.phase = "mounted" =>
        net.isOnline = IF net.lastSignal = "none" THEN net.initial
                       ELSE net.lastSignal = "online"

\* C26: once the cleanup has run, every listener the effect registered has
\* been removed and none remains, with and without the Connection API.
C26_SubscriptionsReleased ==
    net.phase = "released" =>
        /\ net.released = net.acquired
        /\ net.listeners = {}

\* the hook was mounted without the Connection API, got a signal, and was
\* unmounted
C26_Witness ==
    /\ net.phase = "released"
    /\ net.acquired = {"online", "offline"}
    /\ net.lastSignal = "offline"
    /\ net.listeners = {}

(***************************************************************************)
(* Properties of the backoff of fetchWithRetry and of the deadline timer   *)
(* of fetchWithTimeout                                                     *)
(***************************************************************************)
\* C27: the k-th wait of a call (k = 1, 2, ...), which follows attempt k - 1,
\* lasts retryDelay * 2^(k-1) whatever the attempt ended with; every attempt
\* but the one that returned or threw is followed by a wait, and that one is
\* followed by none.
C27_BackoffDoublesNoWaitAtEnd ==
    /\ \A k \in 1..Len(waits) : waits[k] = retryDelay * (2 ^ (k - 1))
    /\ rpc = "done" => Len(waits) = Len(outcomes) - 1
    /\ rpc \in {"fetching", "backoff"} => Len(waits) = Len(outcomes)
    /\ rpc = "backoff" => Len(waits) = attempt + 1

\* three retries, after a server error, a network failure and a server
\* error, waited 1000, 2000 and 4000 ms; the fourth attempt was the last
C27_Witness ==
    /\ rpc = "done"
    /\ waits = <<1000, 2000, 4000>>
    /\ outcomes[1] = Resp(503)
    /\ outcomes[2] = Fail([name |-> "TypeError", message |-> StrFailedToFetch])
    /\ outcomes[3] = Resp(500)
    /\ outcomes[4] = Resp(200)

\* a call of fetchWithTimeout settles in this step
Settles == Len(outcomes') = Len(outcomes) + 1

\* C28: the timer fires only while the fetch is pending, and then aborts it;
\* a fetch that settles before the timer fired leaves the timer cleared and
\* nothing aborted, and a cleared timer never fires; an aborted fetch ends
\* as the timeout failure.
C28_TimerAndFetchExcludeEachOther ==
    [][/\ (timer # "fired" /\ timer' = "fired") =>
              /\ rpc = "fetching"
              /\ ~aborted /\ aborted'
              /\ ~Settles
       /\ (Settles /\ ~aborted) => (timer' = "cleared" /\ ~aborted')
       /\ (Settles /\ aborted) =>
              outcomes'[Len(outcomes')] =
                  Fail([name |-> "Error", message |-> StrRequestTimedOut])
       /\ timer = "cleared" => timer' # "fired"
       /\ aborted' => timer' = "fired"]_vars

\* the first call settled before its timer fired, the second was aborted by
\* its timer
C28_Witness ==
    /\ rpc = "done"
    /\ Len(outcomes) = 2
    /\ outcomes[1] = Resp(503)
    /\ outcomes[2] = Fail([name |-> "Error", message |-> StrRequestTimedOut])
    /\ timer = "fired"
    /\ aborted

(***************************************************************************)
(* Properties of the eviction order of the response cache                  *)
(***************************************************************************)
\* this step is saveToCache for the key of r1's call
SavesStep ==
    /\ gen["r1"].pc = "awaitModel"
    /\ gen'["r1"].pc = "done"
    /\ gen'["r1"].ret.kind = "returned"

\* this step is a call by r1 that getFromCache answered
HitStep == gen["r1"].pc = "idle" /\ gen'["r1"].lookup = "hit"

ExceptKey(c, key) == SelectSeq(c, LAMBDA e : e.key # key)

\* C30: saveToCache on a cache at capacity removes the first entry of the
\* insertion order and no other, then holds the new entry; below capacity it
\* removes nothing; a hit leaves the cache, and with it the order of
\* eviction, as it was.
C30_InsertionOrderEviction ==
    [][/\ SavesStep =>
              LET key == gen["r1"].key
              IN  /\ MapHas(cache', key)
                  /\ Len(cache') <= MAX_CACHE_SIZE
                  /\ IF Len(cache) >= MAX_CACHE_SIZE
                     THEN /\ ExceptKey(cache', key) = ExceptKey(Tail(cache), key)
                          /\ cache[1].key # key => ~MapHas(cache', cache[1].key)
                     ELSE ExceptKey(cache', key) = ExceptKey(cache, key)
       /\ HitStep => cache' = cache]_vars

\* the cache is full and the caller has just been served the entry inserted
\* first, which is still the first of the order
C30_Witness ==
    /\ Len(saved) = MAX_CACHE_SIZE
    /\ Len(cache) = MAX_CACHE_SIZE
    /\ gen["r1"].lookup = "hit"
    /\ gen["r1"].ret.xml = cache[1].xml
    /\ \A i \in 2..Len(cache) : cache[i].xml # cache[1].xml
    /\ cache[1].key = saved[1]

(***************************************************************************)
(* Properties of the window of rateLimit                                   *)
(***************************************************************************)
\* C31: a request of a client whose record exists and whose resetTime the
\* clock has not passed (now <= resetTime), allowed or denied, leaves the
\* resetTime of the record as it was and adds one to its count; every denied
\* request is such a request, so denials never postpone the reset.
C31_FixedWindowNeverPostponed ==
    /\ (Handled /\ lastReq.before.exists
                /\ lastReq.at <= lastReq.before.resetTime) =>
          /\ lastReq.resetTime = lastReq.before.resetTime
          /\ lastReq.count = lastReq.before.count + 1
          /\ rateLimitStore[lastReq.client] =
                 ThrottleRecord(lastReq.before.count + 1,
                                lastReq.before.resetTime)
    /\ (Handled /\ ~lastReq.allowed) =>
          /\ lastReq.before.exists
          /\ lastReq.at <= lastReq.before.resetTime
          /\ lastReq.resetTime = lastReq.before.resetTime

\* a second denial in a row, made when the clock has moved on since the
\* window began, with the reset where the first request of the window put it
C31_Witness ==
    /\ Handled /\ ~lastReq.allowed
    /\ lastReq.before.count = maxRequests + 1
    /\ lastReq.count = maxRequests + 2
    /\ lastReq.at > lastReq.before.resetTime - windowMs
    /\ lastReq.resetTime = lastReq.before.resetTime

(***************************************************************************)
(* Properties of requestTimeout when the response ends first               *)
(***************************************************************************)
\* C32: once 'finish' or 'close' of the response was emitted while the
\* deadline timer was still armed, the timer is cancelled and stays so, and
\* no 408 REQUEST_TIMEOUT response is written for that request.
C32_EndedInTimeNeverTimesOut ==
    ctl.ended # "no" =>
        /\ ctl.timer = "cleared"
        /\ \A i \in DOMAIN ctl.responses : ctl.responses[i] # TimeoutResponse

\* the client closed the connection before anything was written, the handler
\* ran to its end afterwards and its success response is all that was written
C32_Witness ==
    /\ ctl.ended = "close"
    /\ ctl.pc = "done"
    /\ ctl.timer = "cleared"
    /\ ctl.built.kind = "success"
    /\ ctl.responses = <<ctl.built>>

(***************************************************************************)
(* Properties of a request that timed out while the API call was in flight *)
(***************************************************************************)
\* the 408 was written while generateDrawioXML awaits the API
TimedOutInFlight ==
    /\ ctl.pc = "callLlm"
    /\ ctl.timer = "fired"
    /\ ctl.responses = <<TimeoutResponse>>
    /\ gen[Rq].pc = "awaitModel"

\* C33: the step in which the deadline timer fires leaves the call of
\* generateDrawioXML and the cache as they were; a call in flight when the
\* 408 was written changes only by the API settling it, and when it settles
\* with valid XML the cache holds that XML under the key of the call,
\* stamped with the time of the write; the 408 stays the only response.
C33_TimeoutLeavesModelCallRunning ==
    [][/\ (ctl.timer = "armed" /\ ctl'.timer = "fired") =>
              /\ gen' = gen
              /\ cache' = cache
       /\ (TimedOutInFlight /\ gen'[Rq] # gen[Rq]) =>
              /\ gen'[Rq].pc = "done"
              /\ gen'[Rq].calledModel
              /\ ctl' = ctl
              /\ gen'[Rq].ret.kind = "returned" =>
                     /\ MapHas(cache', gen[Rq].key)
                     /\ LET e == cache'[MapIndex(cache', gen[Rq].key)]
                        IN  /\ e.xml = gen'[Rq].ret.xml
                            /\ e.timestamp = now
                            /\ ~IsExpired(e, now)
       /\ (ctl.responses = <<TimeoutResponse>> /\ ctl'.responses # <<>>) =>
              ctl'.responses = ctl.responses]_vars

\* the request was answered 408 while the API call was in flight; the call
\* then resolved with valid XML, which is in the cache, and the handler has
\* not yet resumed
C33_Witness ==
    /\ ctl.pc = "callLlm"
    /\ ctl.timer = "fired"
    /\ ctl.responses = <<TimeoutResponse>>
    /\ gen[Rq].pc = "done"
    /\ gen[Rq].calledModel
    /\ gen[Rq].ret.kind = "returned"
    /\ MapHas(cache, KeyOf[ctl.prompt])
    /\ cache[MapIndex(cache, KeyOf[ctl.prompt])].xml = gen[Rq].ret.xml

(***************************************************************************)
(* Properties of overlapping calls of generateDrawioXML                    *)
(***************************************************************************)
EntriesOf(c, key) == {i \in 1..Len(c) : c[i].key = key}

\* C34: calls of generateDrawioXML with the same cache key may overlap, each
\* missing the cache and each invoking the API; whenever a call that invoked
\* the API returns its XML, the cache holds exactly one entry for the key of
\* the call and that entry carries the XML of this call, also when the
\* overlapping call wrote the key in between.
C34_OverlappingCallsLastWriterWins ==
    [][\A r \in Reqs :
          (gen[r].pc = "awaitModel" /\ gen'[r].pc = "done"
              /\ gen'[r].ret.kind = "returned") =>
              /\ Cardinality(EntriesOf(cache', gen[r].key)) = 1
              /\ cache'[MapIndex(cache', gen[r].key)].xml = gen'[r].ret.xml
              /\ \A e \in 1..Len(cache') :
                     Cardinality(EntriesOf(cache', cache'[e].key)) = 1]_vars

\* no time has passed, so nothing has expired and a call made after a write
\* of its key is a hit; both calls invoked the API and returned different
\* XML, and the cache holds one entry, with the XML of r2: both calls missed
\* the key, r1 wrote it while r2 was in flight and r2 wrote over it
C34_Witness ==
    /\ now = 0
    /\ gen["r1"] = Returned(TRUE, ValidXmlA)
    /\ gen["r2"] = Returned(TRUE, ValidXmlB)
    /\ Len(cache) = 1
    /\ cache[1].xml = ValidXmlB

(***************************************************************************)
(* Properties of the periodic sweep and of shutdown                        *)
(***************************************************************************)
SweepStep == proc'.sweeps # proc.sweeps

\* C35: a sweep runs whenever its interval fires, whatever the requests do,
\* and removes exactly the entries with now > expiresAt, keeping the others
\* in their order; once the process has received SIGTERM or SIGINT the
\* interval is cancelled and no sweep runs.
C35_SweepExactAndCancelledOnShutdown ==
    /\ [][SweepStep =>
             /\ cache' = SelectSeq(cache, LAMBDA e : ~(now > e.expiresAt))
             /\ gen' = gen]_vars
    /\ [](proc.signal # "none" =>
             /\ proc.interval = "cleared"
             /\ ~proc.sweptAfterSignal)

\* the part of C35 the code meets: every sweep removes exactly the entries
\* with now > expiresAt
SweepRemovesExactlyExpired ==
    [][SweepStep =>
          cache' = SelectSeq(cache, LAMBDA e : ~(now > e.expiresAt))]_vars

(***************************************************************************)
(* Properties of what generateDrawioXML writes to the cache                *)
(***************************************************************************)
\* the four elements validateDrawioXML requires (lines 754-780)
HasRequiredElements(xml) ==
    \A tok \in {"<mxfile", "</mxfile>", "<mxGraphModel", "<root>"} :
        \E i \in 1..Len(xml) : xml[i] = tok

\* C36: a call of generateDrawioXML that ends by throwing (the API call
\* rejected, the content was not text, no XML could be extracted, or the XML
\* failed validation) leaves the cache as it was; every entry of the cache
\* and every XML a call returns, from the API or from the cache, has the
\* elements validateDrawioXML requires.
C36_OnlyValidatedResultsCached ==
    /\ [][\A r \in Reqs :
             (gen[r].pc = "awaitModel" /\ gen'[r].pc = "done"
                 /\ gen'[r].ret.kind = "thrown") => cache' = cache]_vars
    /\ [](\A i \in 1..Len(cache) : HasRequiredElements(cache[i].xml))
    /\ [](\A r \in Reqs :
             (gen[r].pc = "done" /\ gen[r].ret.kind = "returned") =>
                 HasRequiredElements(gen[r].ret.xml))

\* the XML of one call failed validation and nothing was written: the cache
\* is empty and the other call has missed it
C36_Witness ==
    /\ gen["r1"].pc = "done"
    /\ gen["r1"].ret.kind = "thrown"
    /\ gen["r1"].ret.code = "INVALID_XML"
    /\ cache = <<>>
    /\ gen["r2"].pc = "awaitModel"
    /\ gen["r2"].lookup = "absent"

(***************************************************************************)
(* Properties of the expiry boundary                                       *)
(***************************************************************************)
LooksUp == gen["r1"].pc = "idle" /\ gen'["r1"].pc # "idle"

\* C37: a lookup is a hit exactly when an entry of the key exists with
\* now <= expiresAt, and leaves the cache as it is; a lookup misses an
\* existing entry only when now > expiresAt, and removes it; a sweep keeps
\* exactly the entries with now <= expiresAt.  An entry with now = expiresAt
\* is served and survives both.
C37_ExpiryIsStrict ==
    [][/\ (LooksUp /\ gen'["r1"].lookup = "hit") =>
              /\ \E i \in 1..Len(cache) :
                     /\ cache[i].xml = gen'["r1"].ret.xml
                     /\ now <= cache[i].expiresAt
              /\ cache' = cache
       /\ (LooksUp /\ gen'["r1"].pc = "awaitModel") =>
              LET key == gen'["r1"].key
              IN  IF MapHas(cache, key)
                  THEN /\ now > cache[MapIndex(cache, key)].expiresAt
                       /\ cache' = SelectSeq(cache, LAMBDA e : e.key # key)
                  ELSE cache' = cache
       /\ SweepStep =>
              cache' = SelectSeq(cache, LAMBDA e : now <= e.expiresAt)]_vars

\* an entry written earlier is served at the very tick of its expiresAt, in
\* an execution in which the sweep has run
C37_Witness ==
    /\ gen["r1"].lookup = "hit"
    /\ proc.sweeps
    /\ \E i \in 1..Len(cache) :
          /\ cache[i].xml = gen["r1"].ret.xml
          /\ cache[i].expiresAt = now
          /\ cache[i].timestamp < now

(***************************************************************************)
(* Properties of rateLimit across clients                                  *)
(***************************************************************************)
\* whether a request of a client with record rec at time t (in ticks) would
\* be passed on
WouldAllow(rec, t) == ~(Counted(rec, t * TickMs).count > maxRequests)

\* C38: a request of one client leaves the record of every other client as
\* it was when that record has not expired (resetTime >= now), changes a
\* record of another client only by deleting one that has expired
\* (resetTime < now), and changes for no other client, at no later time,
\* whether its next request is passed on.
C38_ClientsIsolated ==
    [][now' = now =>
          \A b \in Clients \ {lastReq'.client} :
              /\ (rateLimitStore[b].exists
                     /\ rateLimitStore[b].resetTime >= NowMs) =>
                     rateLimitStore'[b] = rateLimitStore[b]
              /\ rateLimitStore'[b] # rateLimitStore[b] =>
                     /\ rateLimitStore[b].exists
                     /\ rateLimitStore[b].resetTime < NowMs
                     /\ rateLimitStore'[b] = NoThrottleRecord
              /\ passed'[b] = passed[b]
              /\ \A t \in now..MaxTime :
                     WouldAllow(rateLimitStore'[b], t)
                         <=> WouldAllow(rateLimitStore[b], t)]_vars

\* a request of ip1 was handled at the very resetTime of the record of ip2,
\* which is still there with its count over the limit
C38_Witness ==
    /\ Handled
    /\ lastReq.client = "ip1"
    /\ rateLimitStore["ip2"].exists
    /\ rateLimitStore["ip2"].count > maxRequests
    /\ rateLimitStore["ip2"].resetTime = lastReq.at
    /\ lastReq.at > 0

(***************************************************************************)
(* Properties of the deadline timers of a dispatch                         *)
(***************************************************************************)
\* C39: every call of fetchWithTimeout made by a dispatch sets one timer,
\* to the timeoutMs the dispatch was given, however long the dispatch has
\* waited so far; a timer is armed only while its own fetch is pending, so
\* when a backoff wait or the next attempt starts, or the dispatch is over,
\* the timer of the attempt before has been cleared or has fired.
C39_OneTimerPerAttemptFullDeadline ==
    /\ Len(deadlines) = Len(outcomes) + (IF rpc = "fetching" THEN 1 ELSE 0)
    /\ \A i \in 1..Len(deadlines) : deadlines[i] = timeoutMs
    /\ timer = "armed" => rpc = "fetching"
    /\ rpc \in {"backoff", "done"} => timer \in {"cleared", "fired"}

\* the third attempt is pending with its timer armed for the full timeoutMs
\* after two backoff waits
C39_Witness ==
    /\ rpc = "fetching"
    /\ attempt = 2
    /\ timer = "armed"
    /\ Len(deadlines) = 3
    /\ deadlines[3] = timeoutMs
    /\ Len(waits) = 2
    /\ SumOf(waits) > 0

(***************************************************************************)
(* Properties of the converter call                                        *)
(***************************************************************************)
ConvPending(k) == conv[k].pc \notin {"idle", "resolved"}

====
